---------------------------- MODULE Spec2Model ----------------------------
(***************************************************************************)
(* Facility-safety dashboard (Streamlit prototype): threshold evaluator,   *)
(* rule-based / hosted AI responder and synthetic history store.           *)
(*                                                                         *)
(* Numeric conventions.  Readings, cutoffs and baselines are fixed-point   *)
(* integers in hundredths of the gas unit (20.8 % is 2080), which is the   *)
(* precision the code prints readings with ({value:.2f}).  Stored sample   *)
(* timestamps are whole minutes (the generator floors "now" to a minute    *)
(* and steps by whole minutes); arguments of fetch_series are seconds.     *)
(* Gas labels are written in ASCII (O2 for O₂, NH3 for NH₃, H2S for H₂S).  *)
(***************************************************************************)
EXTENDS Integers, Sequences, FiniteSets, TLC

VARIABLES
    hist,          \* st.session_state["hist"]: whether present, key -> series
    hist_days,     \* st.session_state["hist_days"]: NoDays or the days value
    clock,         \* wall clock, seconds
    api_key,       \* os.getenv("OPENAI_API_KEY"): "" when unset or empty
    OpenAI,        \* TRUE iff "from openai import OpenAI" succeeded
    simulate_by_room, \* st.session_state["simulate_by_room"]
    status_ret,    \* the last _status_for call: arguments and return value
    ai_ret,        \* the last ask_ai invocation: arguments, path, result
    ai_prev,       \* the ask_ai invocation before the last one (what it was
                   \* asked, the path it took and what it answered)
    fetch_ret,     \* the last fetch_series call: arguments and result
    fetch_prev,    \* the fetch_series call before the last one
    ops_ret,       \* the last apply_runtime_ops call: arguments and result
    hist_gen,      \* how many times the stored history was (re)generated
    images,        \* the names of the files in the images directory
    facility_imported, \* TRUE iff utils.facility is in sys.modules
    current_room,  \* st.session_state["current_room"]
    selected_detector, \* st.session_state["selected_detector"]
    qp,            \* st.query_params: "" for a key that is absent or empty
    room_ops,      \* st.session_state["room_ops"]: room -> the flags set
    force_rule_ai, \* st.session_state["force_rule_ai"]
    last_status,   \* st.session_state["last_status"]: key -> status or None
    ai_log,        \* st.session_state["ai_log"]: room -> list of entries
    widgets,       \* the stored state of the keyed widgets room_sel, det_sel
    run,           \* the last script run of app.py: what it did, how it ended
    init_ret,      \* the last init_if_needed call: arguments, what it found
    ov_ret,        \* the last render_overview call: which module, what it drew
    det_sim,       \* st.session_state["det_sim"]: key -> the last live value
    det_buf,       \* st.session_state["det_buf"]: key -> the trend buffer
    sim_ret,       \* the last _next_value / _series call: arguments and result
    worst_ret      \* the last _room_worst_status call: room, result, snapshot

\* the script-run state of one session and its record
page == <<current_room, selected_detector, qp, room_ops, force_rule_ai,
          last_status, ai_log, widgets, run>>

\* the live-value simulator of facility_module and its record
live == <<det_sim, det_buf, sim_ret>>

vars == <<hist, hist_days, clock, api_key, OpenAI, simulate_by_room,
          status_ret, ai_ret, ai_prev, fetch_ret, fetch_prev, ops_ret,
          hist_gen, images, facility_imported, page, init_ret, ov_ret,
          live, worst_ret>>

\* everything kept in st.session_state
session == <<hist, hist_days, simulate_by_room, current_room,
             selected_detector, room_ops, force_rule_ai, last_status,
             ai_log, widgets, det_sim, det_buf>>

None == "None"
\* "hist" not in st.session_state
NoHist == [present |-> FALSE, frames |-> <<>>]
\* "hist_days" not in st.session_state
NoDays == 0 - 1
NoCall == [op |-> "none"]
\* a key that is not in st.session_state
Unset == "<unset>"

-----------------------------------------------------------------------------
(* Static tables of utils/facility.py *)

ROOMS == <<"Room 1", "Room 2", "Room 3", "Room Production",
           "Room Production 2", "Room 12 17">>

RoomSet == {ROOMS[i] : i \in 1..Len(ROOMS)}

\* room -> the labels of its detectors, in table order
DETECTORS ==
    [r \in RoomSet |->
        CASE r = "Room 1"            -> <<"NH3">>
          [] r = "Room 2"            -> <<"CO">>
          [] r = "Room 3"            -> <<"O2">>
          [] r = "Room 12 17"        -> <<"Ethanol">>
          [] r = "Room Production"   -> <<"NH3", "O2">>
          [] r = "Room Production 2" -> <<"O2", "H2S">>]

THRESHOLDS ==
    [l \in {"O2", "CO", "H2S", "NH3", "Ethanol"} |->
        CASE l = "O2"      -> [mode |-> "low",  warn |-> 1950,  alarm |-> 1800,  units |-> "%"]
          [] l = "CO"      -> [mode |-> "high", warn |-> 3500,  alarm |-> 5000,  units |-> "ppm"]
          [] l = "H2S"     -> [mode |-> "high", warn |-> 1000,  alarm |-> 1500,  units |-> "ppm"]
          [] l = "NH3"     -> [mode |-> "high", warn |-> 2500,  alarm |-> 3500,  units |-> "ppm"]
          [] l = "Ethanol" -> [mode |-> "high", warn |-> 30000, alarm |-> 50000, units |-> "ppm"]]

\* labels handed to the evaluator: the five gases of THRESHOLDS and CH4,
\* a detector label of facility_module.py that has no threshold record
Labels == DOMAIN THRESHOLDS \cup {"CH4"}

\* "{value:.2f}": a reading in hundredths printed with two decimals
Fmt2(v) ==
    LET a == IF v < 0 THEN -v ELSE v
        frac == a % 100
    IN (IF v < 0 THEN "-" ELSE "") \o ToString(a \div 100) \o "."
       \o (IF frac < 10 THEN "0" ELSE "") \o ToString(frac)

-----------------------------------------------------------------------------
(* Status/threshold evaluator *)

\* the same evaluator with the alarm cutoffs compared strictly
_status_for_strict(label, value) ==
    IF label \notin DOMAIN THRESHOLDS
    THEN [status |-> "OK", msg |-> <<"Monitoring normal conditions.">>]
    ELSE LET thr == THRESHOLDS[label] IN
         IF thr.mode = "low"
         THEN IF value < thr.alarm
              THEN [status |-> "ALARM", msg |-> <<label, "critically low", Fmt2(value), thr.units>>]
              ELSE IF value <= thr.warn
              THEN [status |-> "WARN", msg |-> <<label, "trending low", Fmt2(value), thr.units>>]
              ELSE [status |-> "OK", msg |-> <<label, "normal", Fmt2(value), thr.units>>]
         ELSE IF value > thr.alarm
              THEN [status |-> "ALARM", msg |-> <<label, "high", Fmt2(value), thr.units>>]
              ELSE IF value >= thr.warn
              THEN [status |-> "WARN", msg |-> <<label, "elevated", Fmt2(value), thr.units>>]
              ELSE [status |-> "OK", msg |-> <<label, "normal", Fmt2(value), thr.units>>]

\* the same evaluator without the fallback for a label that has no record
_status_for_nofallback(label, value) ==
    IF label \notin DOMAIN THRESHOLDS
    THEN [status |-> None, msg |-> <<>>]
    ELSE _status_for_strict(label, value)

\* the same evaluator reading every record as a high-mode one
_status_for_highonly(label, value) ==
    IF label \notin DOMAIN THRESHOLDS
    THEN [status |-> "OK", msg |-> <<"Monitoring normal conditions.">>]
    ELSE LET thr == THRESHOLDS[label] IN
         IF value >= thr.alarm
         THEN [status |-> "ALARM", msg |-> <<label, "high", Fmt2(value), thr.units>>]
         ELSE IF value >= thr.warn
         THEN [status |-> "WARN", msg |-> <<label, "elevated", Fmt2(value), thr.units>>]
         ELSE [status |-> "OK", msg |-> <<label, "normal", Fmt2(value), thr.units>>]

_status_for(label, value) ==
    IF label \notin DOMAIN THRESHOLDS
    THEN [status |-> "OK", msg |-> <<"Monitoring normal conditions.">>]
    ELSE LET thr == THRESHOLDS[label] IN
         IF thr.mode = "low"
         THEN IF value <= thr.alarm
              THEN [status |-> "ALARM", msg |-> <<label, "critically low", Fmt2(value), thr.units>>]
              ELSE IF value <= thr.warn
              THEN [status |-> "WARN", msg |-> <<label, "trending low", Fmt2(value), thr.units>>]
              ELSE [status |-> "OK", msg |-> <<label, "normal", Fmt2(value), thr.units>>]
         ELSE IF value >= thr.alarm
              THEN [status |-> "ALARM", msg |-> <<label, "high", Fmt2(value), thr.units>>]
              ELSE IF value >= thr.warn
              THEN [status |-> "WARN", msg |-> <<label, "elevated", Fmt2(value), thr.units>>]
              ELSE [status |-> "OK", msg |-> <<label, "normal", Fmt2(value), thr.units>>]

-----------------------------------------------------------------------------
(* Synthetic history store (utils/history.py) *)

\* sampling step of the time index, minutes (the code's freq is "5min";
\* the model samples more coarsely to keep a 7-day series short)
FreqMin == 360

\* largest noise draw, hundredths (the code draws N(0, 0.25), unbounded)
MaxNoise == 50

\* samples kept free of spike centres at both ends of a series (the code
\* keeps 60 of its 5-minute samples; the model keeps the margin wider than
\* a spike's half width, as the code does, on its shorter series)
SpikeMargin == 12
width == 6
DefaultBase == 1000
DefaultHeight == 1000
TailLen == 20
DefaultMag == 800

NoiseLevels == {0 - MaxNoise, 0, MaxNoise}

\* the days values init_if_needed is called with (facility.py passes 7)
DaysSet == {7}

\* a / b rounded to the nearest integer, b > 0
RDiv(a, b) == (2 * a + b) \div (2 * b)

Abs(x) == IF x < 0 THEN 0 - x ELSE x

DEFAULT_BASE ==
    [l \in {"NH3", "CO", "O2", "H2S", "Ethanol"} |->
        CASE l = "NH3" -> 2000 [] l = "CO" -> 1200 [] l = "O2" -> 2080
          [] l = "H2S" -> 150  [] l = "Ethanol" -> 26000]

\* DEFAULT_BASE.get(label, 10.0)
BaseOf(label) ==
    IF label \in DOMAIN DEFAULT_BASE THEN DEFAULT_BASE[label] ELSE DefaultBase

\* the per-gas spike height table, .get(label, 10)
HeightOf(label) ==
    CASE label = "NH3" -> 1500 [] label = "CO" -> 2500 [] label = "O2" -> 0 - 300
      [] label = "H2S" -> 800  [] label = "Ethanol" -> 18000
      [] OTHER -> DefaultHeight

\* math.exp(-(k*k) / (2*(width/2.2)**2)) for width 6, in thousandths
Bump(k) ==
    CASE Abs(k) = 0 -> 1000 [] Abs(k) = 1 -> 935 [] Abs(k) = 2 -> 764
      [] Abs(k) = 3 -> 546  [] Abs(k) = 4 -> 341 [] Abs(k) = 5 -> 186
      [] Abs(k) = 6 -> 89   [] OTHER -> 0

\* 0.5 * sin(linspace(0, 8*pi, n))[i] in hundredths, i in 0..n-1; the sine
\* of each half period is Bhaskara's rational approximation (within 0.006)
Wave(i, n) ==
    IF n < 2 THEN 0
    ELSE LET m == n - 1
             r == (8 * i) % m
             h == (8 * i) \div m
             p == r * (m - r)
             a == RDiv(50 * 16 * p, 5 * m * m - 4 * p)
         IN IF h % 2 = 0 THEN a ELSE 0 - a

\* key of a stored series
_key(room, label) == <<room, label>>

\* the (room, label) pairs of the detector table
Keys == UNION {{_key(r, DETECTORS[r][i]) : i \in 1..Len(DETECTORS[r])} : r \in RoomSet}


Max(a, b) == IF a >= b THEN a ELSE b
Min(a, b) == IF a <= b THEN a ELSE b

\* len(pd.date_range(now - days, now, freq)): both ends included
IndexLen(days) == (days * 1440) \div FreqMin + 1

\* pd.date_range(start, now, freq) with now floored to the minute, minutes
time_index(now_s, days) ==
    LET now == now_s \div 60
        start == now - days * 1440
    IN [j \in 1..IndexLen(days) |-> start + (j - 1) * FreqMin]

\* weeks * spikes_per_week, at least one
spike_count(days, spikes_per_week) ==
    LET weeks == Max(1, days \div 7)
    IN Max(1, weeks * Max(1, spikes_per_week))

\* np.random.choice(np.arange(60, n-60), size=spike_count, replace=False):
\* the sets of distinct centres (0-based sample positions) it can draw
CentreDraws(days, spikes_per_week) ==
    {C \in SUBSET (SpikeMargin .. (IndexLen(days) - SpikeMargin - 1)) :
        Cardinality(C) = spike_count(days, spikes_per_week)}

RECURSIVE SumBumps(_, _, _, _)
\* what the spikes centred in C add to sample idx (0-based) of an n-sample series
SumBumps(label, idx, n, C) ==
    IF C = {} THEN 0
    ELSE LET c == CHOOSE x \in C : TRUE
             k == idx - c
             add == IF Abs(k) <= width /\ 0 <= idx /\ idx < n
                    THEN RDiv(HeightOf(label) * Bump(k), 1000) ELSE 0
         IN add + SumBumps(label, idx, n, C \ {c})

\* the noise draw of sample idx: one level on even, one on odd positions
NoiseAt(idx, a, b) == IF idx % 2 = 0 THEN a ELSE b

\* series[idx] = base + wave + noise + spikes, as generated (no clamp)
Sample(label, idx, n, a, b, C) ==
    BaseOf(label) + Wave(idx, n) + NoiseAt(idx, a, b) + SumBumps(label, idx, n, C)

\* the DataFrame {"t": time_index, "value": series} of one detector
gen_series(label, now_s, days, a, b, C) ==
    LET ti == time_index(now_s, days)
        n == Len(ti)
    IN [j \in 1..n |-> [t |-> ti[j], value |-> Sample(label, j - 1, n, a, b, C)]]

\* an init_if_needed that never looks at the days value of the cache
init_if_needed_nodays(days, spikes_per_week, NL) ==
    IF hist.present
    THEN UNCHANGED <<hist, hist_days, hist_gen>>
    ELSE \E a \in NL, b \in NL, C \in CentreDraws(days, spikes_per_week) :
            /\ hist' = [present |-> TRUE,
                        frames |-> [k \in Keys |-> gen_series(k[2], clock, days, a, b, C)]]
            /\ hist_days' = days
            /\ hist_gen' = hist_gen + 1

\* init_if_needed(DETECTORS, days, spikes_per_week); the random draws are
\* the noise levels a, b (taken from NL) and the spike centres C, and every
\* detector of one call gets the same draws
init_if_needed(days, spikes_per_week, NL) ==
    IF hist.present /\ hist_days = days
    THEN UNCHANGED <<hist, hist_days, hist_gen>>
    ELSE \E a \in NL, b \in NL, C \in CentreDraws(days, spikes_per_week) :
            /\ hist' = [present |-> TRUE,
                        frames |-> [k \in Keys |-> gen_series(k[2], clock, days, a, b, C)]]
            /\ hist_days' = days
            /\ hist_gen' = hist_gen + 1

\* init_if_needed with the noise drawn for each detector on its own: NF is
\* the set of draws, each giving every detector its noise level
init_if_needed_each(days, spikes_per_week, NF) ==
    IF hist.present /\ hist_days = days
    THEN UNCHANGED <<hist, hist_days, hist_gen>>
    ELSE \E f \in NF, C \in CentreDraws(days, spikes_per_week) :
            /\ hist' = [present |-> TRUE,
                        frames |-> [k \in Keys |->
                                       gen_series(k[2], clock, days, f[k], f[k], C)]]
            /\ hist_days' = days
            /\ hist_gen' = hist_gen + 1

\* st.session_state.get("hist", {}).get(_key(room, label)) is not None
HasFrame(room, label) ==
    hist.present /\ _key(room, label) \in DOMAIN hist.frames

\* pd.to_datetime(ts, unit="s", utc=True) against a stored timestamp: the
\* stored minute t is at or after / at or before the second ts
AtOrAfter(t, ts) == t * 60 >= ts
AtOrBefore(t, ts) == t * 60 <= ts

\* the row filter with only the lower bound applied
InRangeLowerOnly(row, start_ts, end_ts) == AtOrAfter(row.t, start_ts)

\* df[(df["t"] >= s) & (df["t"] <= e)]: the row filter of fetch_series
InRange(row, start_ts, end_ts) ==
    AtOrAfter(row.t, start_ts) /\ AtOrBefore(row.t, end_ts)

\* fetch_series(room, label, start_ts, end_ts): the returned frame
fetch_series(room, label, start_ts, end_ts) ==
    IF ~HasFrame(room, label) THEN <<>>
    ELSE LET df == hist.frames[_key(room, label)]
             Keep(row) == InRange(row, start_ts, end_ts)
         IN IF Len(df) = 0 THEN <<>> ELSE SelectSeq(df, Keep)

\* a fetch that filters the stored frame in place: the store keeps only
\* the returned rows
fetch_store_inplace(room, label, start_ts, end_ts) ==
    IF ~HasFrame(room, label) THEN hist
    ELSE [hist EXCEPT !.frames[_key(room, label)] =
                          fetch_series(room, label, start_ts, end_ts)]

\* the store after fetch_series: the slice is a copy, the store is untouched
fetch_store(room, label, start_ts, end_ts) == hist

-----------------------------------------------------------------------------
(* apply_runtime_ops *)

\* the per-gas leak magnitude, .get(label, 8)
MagOf(label) ==
    CASE label = "NH3" -> 1000 [] label = "CO" -> 1500 [] label = "O2" -> 0 - 150
      [] label = "H2S" -> 600  [] label = "Ethanol" -> 12000
      [] OTHER -> DefaultMag

\* the k-th smallest (1-based) of the values of a non-empty sequence
KthSmallest(vs, k) ==
    CHOOSE x \in {vs[i] : i \in 1..Len(vs)} :
        /\ Cardinality({i \in 1..Len(vs) : vs[i] < x}) < k
        /\ Cardinality({i \in 1..Len(vs) : vs[i] <= x}) >= k

\* tail["value"].median()
Median(vs) ==
    LET n == Len(vs) IN
    IF n % 2 = 1 THEN KthSmallest(vs, (n + 1) \div 2)
    ELSE RDiv(KthSmallest(vs, n \div 2) + KthSmallest(vs, n \div 2 + 1), 2)

\* DEFAULT_BASE.get(label, float(tail["value"].median()))
BaseOrMedian(label, vs) ==
    IF label \in DOMAIN DEFAULT_BASE THEN DEFAULT_BASE[label] ELSE Median(vs)

\* a ventilation that pulls every sample of the tail all the way, the last
\* one onto the baseline
Ventilate_full(vs, base) ==
    LET n == Len(vs)
        d == Max(1, n - 1)
    IN [j \in 1..n |-> RDiv(vs[j] * (d - (j - 1)) + base * (j - 1), d)]

\* tail["value"]*(1 - 0.6*pull) + base*(0.6*pull), pull = linspace(0, 1, n)
Ventilate(vs, base) ==
    LET n == Len(vs)
        d == Max(1, n - 1)
    IN [j \in 1..n |->
           RDiv(vs[j] * (10 * d - 6 * (j - 1)) + base * 6 * (j - 1), 10 * d)]

\* the values of the last TailLen samples after the requested operations;
\* j-1 of d = len(tail)-1 is np.linspace(0, 1, len(tail))[j-1]
TailAfterOps(vs, label, simulate, ops) ==
    LET n == Len(vs)
        d == Max(1, n - 1)
        s1 == IF simulate
              THEN [j \in 1..n |-> vs[j] + RDiv(MagOf(label) * (j - 1), d)]
              ELSE vs
        s2 == IF "close_shutter" \in ops
              THEN [j \in 1..n |-> RDiv(s1[j] * (9 * d - 2 * (j - 1)), 10 * d)]
              ELSE s1
        b3 == BaseOrMedian(label, s2)
        s3 == IF "ventilate" \in ops THEN Ventilate(s2, b3) ELSE s2
        b4 == BaseOrMedian(label, s3)
        s4 == IF "reset" \in ops
              THEN [j \in 1..n |-> RDiv(s3[j] * 2 + b4 * 8, 10)]
              ELSE s3
    IN s4

\* an apply_runtime_ops whose tail is the whole series
apply_runtime_ops_whole(df, room, label, simulate, ops) ==
    IF Len(df) = 0 THEN df
    ELSE LET n == Len(df)
             tailvals == [j \in 1..n |-> df[j].value]
             newvals == TailAfterOps(tailvals, label, simulate, ops)
         IN [i \in 1..n |-> [t |-> df[i].t, value |-> newvals[i]]]

\* apply_runtime_ops(df, room, label, simulate, ops): the returned frame
apply_runtime_ops(df, room, label, simulate, ops) ==
    IF Len(df) = 0 THEN df
    ELSE LET n == Len(df)
             tl == Min(TailLen, n)
             first == n - tl + 1
             tailvals == [j \in 1..tl |-> df[first + j - 1].value]
             newvals == TailAfterOps(tailvals, label, simulate, ops)
         IN [i \in 1..n |->
                IF i < first THEN df[i]
                ELSE [t |-> df[i].t, value |-> newvals[i - first + 1]]]

-----------------------------------------------------------------------------
(* Rule-based / hosted AI responder (utils/ai.py).  A string is a sequence *)
(* of tokens; a context is a record whose value is <<>> for None and <<v>> *)
(* for a reading, and whose thresholds is <<>> for an empty or missing     *)
(* dictionary and <<thr>> for a threshold record.                          *)

RECURSIVE LStrip(_)
LStrip(str) ==
    IF Len(str) > 0 /\ Head(str) = " " THEN LStrip(Tail(str)) ELSE str

RECURSIVE RStrip(_)
RStrip(str) ==
    IF Len(str) > 0 /\ str[Len(str)] = " "
    THEN RStrip(SubSeq(str, 1, Len(str) - 1)) ELSE str

\* str.strip(): leading and trailing whitespace removed
Strip(str) == RStrip(LStrip(str))

RECURSIVE Join(_)
\* "\n\n".join(advice)
Join(paras) ==
    IF Len(paras) = 0 THEN <<>>
    ELSE IF Len(paras) = 1 THEN paras[1]
    ELSE paras[1] \o <<"\n\n">> \o Join(Tail(paras))

\* str() of a threshold cutoff: a float prints with its shortest decimals,
\* an int (the self-test's thresholds) without a decimal point
FmtCutoff(v, isint) ==
    IF isint THEN ToString(v \div 100)
    ELSE ToString(v \div 100) \o "." \o
         (IF v % 10 = 0 THEN ToString((v % 100) \div 10)
          ELSE (IF v % 100 < 10 THEN "0" ELSE "") \o ToString(v % 100))

\* the template keeping a conversation memory: it also quotes the prompt
\* of the invocation before
_rule_based_memory(prompt, context) ==
    <<"Room: **", context.room, "** | Gas: **", context.gas, "** | Status: **",
      context.status, "**">>
    \o (IF ai_ret.op = "ask_ai" THEN <<"\n\n", "Earlier: ">> \o ai_ret.prompt ELSE <<>>)

\* _rule_based(prompt, context): the canned markdown answer
_rule_based(prompt, context) ==
    LET room == context.room
        gas == context.gas
        value == context.value
        status == context.status
        thr == context.thresholds
        simulate == context.simulate
        line1 == << <<"Room: **", room, "** | Gas: **", gas, "** | Status: **", status, "**">> >>
        reading ==
            IF Len(value) > 0 /\ Len(thr) > 0
            THEN << <<"Latest reading: **", Fmt2(value[1]), thr[1].units, "**">>,
                    IF thr[1].mode = "low"
                    THEN <<"Low-warn: ", FmtCutoff(thr[1].warn, thr[1].ints), thr[1].units,
                           " | Low-alarm: ", FmtCutoff(thr[1].alarm, thr[1].ints), thr[1].units>>
                    ELSE <<"Warn: ", FmtCutoff(thr[1].warn, thr[1].ints), thr[1].units,
                           " | Alarm: ", FmtCutoff(thr[1].alarm, thr[1].ints), thr[1].units>> >>
            ELSE <<>>
        actions ==
            IF status = "ALARM"
            THEN << <<"**Actions now:** Close shutters, isolate source, stop work, evacuate to muster, and call ERT.">> >>
                 \o (IF gas \in {"H2S", "CO"}
                     THEN << <<"Use gas monitors; SCBA required for re-entry if concentrations are unknown.">> >>
                     ELSE <<>>)
                 \o (IF gas \in {"O2"}
                     THEN << <<"Low O2: treat as IDLH; ventilate and prevent confined-space entry.">> >>
                     ELSE <<>>)
            ELSE IF status = "WARN"
            THEN << <<"**Actions:** Increase extraction/ventilation, check for leaks/consumption, prepare shutdown if trend continues.">> >>
            ELSE << <<"No abnormal conditions. Keep ventilation and routine checks in place.">> >>
        sim == IF simulate THEN << <<"_(Simulation mode active.)_">> >> ELSE <<>>
        reply ==
            IF Len(Strip(prompt)) > 0
            THEN << <<"**Reply:** ">> \o Strip(prompt) \o
                    <<" -> Prioritize isolation, ventilation control, and continuous monitoring.">> >>
            ELSE <<>>
    IN Join(line1 \o reading \o actions \o sim \o reply)

\* what can happen on the hosted path: the client constructor raises, the
\* chat-completion call raises, reading the response raises, or a reply
\* text comes back
Outcomes == {"ctor_raises", "call_raises", "read_raises", "ok"}

\* resp.choices[0].message.content of a successful call
LLMText == <<" ", "Ventilate", "and", "evacuate.", " ">>

\* the hosted path whose except clause does not cover reading the response
Hosted_read_uncaught(prompt, context, outcome) ==
    CASE outcome = "ctor_raises" ->
            [path |-> "hosted", calls |-> 0, raised |-> FALSE,
             answer |-> _rule_based(prompt, context)]
      [] outcome = "call_raises" ->
            [path |-> "hosted", calls |-> 1, raised |-> FALSE,
             answer |-> _rule_based(prompt, context)]
      [] outcome = "read_raises" ->
            [path |-> "hosted", calls |-> 1, raised |-> TRUE, answer |-> <<>>]
      [] OTHER ->
            [path |-> "hosted", calls |-> 1, raised |-> FALSE, answer |-> Strip(LLMText)]

\* the hosted path that tries the call a second time when it raises
Hosted_retry(prompt, context, outcome) ==
    CASE outcome = "ctor_raises" ->
            [path |-> "hosted", calls |-> 0, raised |-> FALSE,
             answer |-> _rule_based(prompt, context)]
      [] outcome = "call_raises" ->
            [path |-> "hosted", calls |-> 2, raised |-> FALSE,
             answer |-> _rule_based(prompt, context)]
      [] outcome = "read_raises" ->
            [path |-> "hosted", calls |-> 1, raised |-> FALSE,
             answer |-> _rule_based(prompt, context)]
      [] OTHER ->
            [path |-> "hosted", calls |-> 1, raised |-> FALSE, answer |-> Strip(LLMText)]

\* the try/except of ask_ai: calls counts the chat-completion calls made,
\* raised says whether an exception leaves ask_ai
Hosted(prompt, context, outcome) ==
    CASE outcome = "ctor_raises" ->
            [path |-> "hosted", calls |-> 0, raised |-> FALSE,
             answer |-> _rule_based(prompt, context)]
      [] outcome = "call_raises" ->
            [path |-> "hosted", calls |-> 1, raised |-> FALSE,
             answer |-> _rule_based(prompt, context)]
      [] outcome = "read_raises" ->
            [path |-> "hosted", calls |-> 1, raised |-> FALSE,
             answer |-> _rule_based(prompt, context)]
      [] OTHER ->
            [path |-> "hosted", calls |-> 1, raised |-> FALSE, answer |-> Strip(LLMText)]

\* ask_ai that ignores force_rule when a credential and the SDK are present
ask_ai_noforce(prompt, context, force_rule, outcome) ==
    IF api_key = "" \/ ~OpenAI
    THEN [path |-> "rule", calls |-> 0, raised |-> FALSE,
          answer |-> _rule_based(prompt, context)]
    ELSE Hosted(prompt, context, outcome)

\* ask_ai(prompt, context, force_rule), with the hosted path's outcome
ask_ai(prompt, context, force_rule, outcome) ==
    IF force_rule \/ api_key = "" \/ ~OpenAI
    THEN [path |-> "rule", calls |-> 0, raised |-> FALSE,
          answer |-> _rule_based(prompt, context)]
    ELSE Hosted(prompt, context, outcome)

-----------------------------------------------------------------------------
(* Image files, overview hotspots and status chips (utils/facility.py and  *)
(* its older sibling utils/facility_module.py).  A path is the name of a   *)
(* file in the images directory; _find_first returns <<>> for None and     *)
(* <<name>> for the first candidate that exists.                           *)

OVERVIEW_CANDS == <<"Overview.png", "Overview (1).png", "overview.png">>

ROOM_FILES ==
    [r \in RoomSet |->
        CASE r = "Room 1"            -> <<"Room 1.png">>
          [] r = "Room 2"            -> <<"Room 2 (1).png", "Room 2.png">>
          [] r = "Room 3"            -> <<"Room 3 (1).png", "Room 3.png">>
          [] r = "Room Production"   -> <<"Room Production.png">>
          [] r = "Room Production 2" -> <<"Room Production 2.png">>
          [] r = "Room 12 17"        -> <<"Room 12 17.png">>]

\* ROOM_FILES.get(room, [])
RoomFilesOf(room) == IF room \in DOMAIN ROOM_FILES THEN ROOM_FILES[room] ELSE <<>>

\* every candidate file name of utils/facility.py
AllFiles ==
    {OVERVIEW_CANDS[i] : i \in 1..Len(OVERVIEW_CANDS)}
    \cup UNION {{ROOM_FILES[r][i] : i \in 1..Len(ROOM_FILES[r])} : r \in RoomSet}

\* _exists(images_dir / n)
_exists(n) == n \in images

RECURSIVE _find_first(_)
_find_first(names) ==
    IF Len(names) = 0 THEN <<>>
    ELSE IF _exists(Head(names)) THEN <<Head(names)>>
    ELSE _find_first(Tail(names))

\* the keys of HOTSPOTS in insertion order (the boxes are layout only)
HOTSPOTS == <<"Room 1", "Room 2", "Room 3", "Room 12 17", "Room Production",
              "Room Production 2">>

\* urllib.parse.quote on the names that occur: a space becomes %20
quote(str) ==
    CASE str = "Room 1"            -> "Room%201"
      [] str = "Room 2"            -> "Room%202"
      [] str = "Room 3"            -> "Room%203"
      [] str = "Room 12 17"        -> "Room%2012%2017"
      [] str = "Room Production"   -> "Room%20Production"
      [] str = "Room Production 2" -> "Room%20Production%202"
      [] str = "Lab 9"             -> "Lab%209"
      [] OTHER                     -> str

\* urllib.parse.unquote on the same names: %20 becomes a space, a string
\* without an escape is returned as it is
unquote(str) ==
    CASE str = "Room%201"              -> "Room 1"
      [] str = "Room%202"              -> "Room 2"
      [] str = "Room%203"              -> "Room 3"
      [] str = "Room%2012%2017"        -> "Room 12 17"
      [] str = "Room%20Production"     -> "Room Production"
      [] str = "Room%20Production%202" -> "Room Production 2"
      [] str = "Lab%209"               -> "Lab 9"
      [] OTHER                         -> str

\* DETECTORS.get(room, []): the labels of the room's detectors
get_detectors_for(room) == IF room \in DOMAIN DETECTORS THEN DETECTORS[room] ELSE <<>>

\* history.latest_value(room, label): <<>> for None
latest_value(room, label) ==
    IF ~HasFrame(room, label) THEN <<>>
    ELSE LET df == hist.frames[_key(room, label)]
         IN IF Len(df) = 0 THEN <<>> ELSE <<df[Len(df)].value>>

\* order = {"OK": 0, "WARN": 1, "ALARM": 2}
order(status) == CASE status = "OK" -> 0 [] status = "WARN" -> 1 [] status = "ALARM" -> 2

RECURSIVE WorstFrom(_, _, _)
\* the loop of _room_worst_status from the i-th detector on
WorstFrom(room, i, worst) ==
    LET dets == get_detectors_for(room) IN
    IF i > Len(dets) THEN worst
    ELSE LET val == latest_value(room, dets[i]) IN
         IF Len(val) = 0 THEN WorstFrom(room, i + 1, worst)
         ELSE LET st == _status_for(dets[i], val[1]).status IN
              IF order(st) > order(worst)
              THEN IF st = "ALARM" THEN st ELSE WorstFrom(room, i + 1, st)
              ELSE WorstFrom(room, i + 1, worst)

\* a worst status that is the status of the last detector with a value
_room_worst_status_last(room) ==
    LET dets == get_detectors_for(room)
        have == {i \in 1..Len(dets) : latest_value(room, dets[i]) # <<>>}
    IN IF have = {} THEN "OK"
       ELSE LET i == CHOOSE x \in have : \A y \in have : y <= x
            IN _status_for(dets[i], latest_value(room, dets[i])[1]).status

_room_worst_status(room) == WorstFrom(room, 1, "OK")

\* build_facility_snapshot(): room -> node, node: label -> value, status and
\* thresholds of every detector of the room that has a latest value
build_facility_snapshot ==
    [room \in DOMAIN DETECTORS |->
        LET dets == DETECTORS[room]
            have == {dets[i] : i \in {j \in 1..Len(dets) :
                                         latest_value(room, dets[j]) # <<>>}}
        IN [label \in have |->
               LET val == latest_value(room, label)[1]
               IN [value |-> val, status |-> _status_for(label, val).status,
                   thresholds |-> IF label \in DOMAIN THRESHOLDS
                                  THEN <<THRESHOLDS[label]>> ELSE <<>>]]]

\* one <a class="hotspot" href="?room=..."> tag
HotspotTag(room) == [room |-> room, href |-> "?room=" \o quote(room)]

\* facility.render_overview: whether the overview image was found, the
\* status chips and the hotspot tags of the page
render_overview ==
    IF _find_first(OVERVIEW_CANDS) = <<>>
    THEN [found |-> FALSE, chips |-> <<>>, tags |-> <<>>]
    ELSE [found |-> TRUE,
          chips |-> [i \in 1..Len(ROOMS) |->
                        [room |-> ROOMS[i], status |-> _room_worst_status(ROOMS[i])]],
          tags |-> [i \in 1..Len(HOTSPOTS) |-> HotspotTag(HOTSPOTS[i])]]

\* file candidates of utils/facility_module.py
OVERVIEW_CANDIDATES == <<"Overview.png", "Overview (1).png", "overview.png">>

ROOM_FILE_CANDIDATES ==
    [r \in RoomSet |->
        CASE r = "Room 1"            -> <<"Room 1.png">>
          [] r = "Room 2"            -> <<"Room 2 (1).png", "Room 2.png">>
          [] r = "Room 3"            -> <<"Room 3 (1).png", "Room 3.png">>
          [] r = "Room 12 17"        -> <<"Room 12 17.png", "Room 12.png">>
          [] r = "Room Production"   -> <<"Room Production.png">>
          [] r = "Room Production 2" -> <<"Room Production 2.png", "Room Production2.png">>]

RECURSIVE _first(_)
_first(names) ==
    IF Len(names) = 0 THEN <<>>
    ELSE IF Head(names) \in images THEN <<Head(names)>>
    ELSE _first(Tail(names))

\* facility_module.render_overview: only rooms that have an image get a tag
render_overview_module ==
    IF _first(OVERVIEW_CANDIDATES) = <<>>
    THEN [found |-> FALSE, chips |-> <<>>, tags |-> <<>>]
    ELSE LET Available(room) == _first(ROOM_FILE_CANDIDATES[room]) # <<>>
             available == SelectSeq(HOTSPOTS, Available)
         IN [found |-> TRUE, chips |-> <<>>,
             tags |-> [i \in 1..Len(available) |-> HotspotTag(available[i])]]

-----------------------------------------------------------------------------
(* Operations *)

\* wall clock at start-up, seconds (not on a minute boundary)
Clock0 == 1200037

\* readings handed to the evaluator: every cutoff, its two neighbours, and
\* the readings of the two end-to-end scenarios
Cutoffs == UNION {{THRESHOLDS[l].warn, THRESHOLDS[l].alarm} : l \in DOMAIN THRESHOLDS}
StatusValues == UNION {{c - 1, c, c + 1} : c \in Cutoffs} \cup {0, 1750, 4200}

\* (room, label) pairs fetched: a stored one and one with no series
FetchKeys == {<<"Room 3", "O2">>, <<"Room 1", "CO">>}

\* range ends handed to fetch_series, seconds: before the first sample,
\* between two samples, on a later sample, and the wall clock
TimeArgs ==
    LET start == (clock \div 60 - 7 * 1440) * 60
    IN {start - 1, start + 2 * FreqMin * 60 + 17, start + 5 * FreqMin * 60, clock}

\* ops dictionaries handed to apply_runtime_ops: every combination of the
\* three flags it reads, and the flag it ignores
OpsDraws == SUBSET {"close_shutter", "ventilate", "reset"} \cup {{"ack"}}

\* spikes_per_week values (the default is 1)
SpwSet == {1, 2}

\* pairs whose series apply_runtime_ops is applied to
OpsKeys == {<<"Room 3", "O2">>, <<"Room 1", "NH3">>}

\* THRESHOLDS.get(gas, {}) as a context field
ThrOf(gas) ==
    IF gas \in DOMAIN THRESHOLDS
    THEN << [mode |-> THRESHOLDS[gas].mode, warn |-> THRESHOLDS[gas].warn,
             alarm |-> THRESHOLDS[gas].alarm, units |-> THRESHOLDS[gas].units,
             ints |-> FALSE] >>
    ELSE <<>>

\* the context render_room builds for a chat question: value is the latest
\* reading of the last hour or None, simulate the room's session flag
RoomChatCtx(room, gas, value) ==
    [room |-> room, gas |-> gas, value |-> value,
     status |-> IF Len(value) > 0 /\ Len(ThrOf(gas)) > 0
                THEN _status_for(gas, value[1]).status ELSE "OK",
     thresholds |-> ThrOf(gas),
     simulate |-> room \in simulate_by_room]

\* the context of the facility-wide chat (no thresholds, no simulate key)
GlobalCtx ==
    [room |-> "All", gas |-> None, value |-> <<>>, status |-> "Mixed",
     thresholds |-> <<>>, simulate |-> FALSE]

\* the context of the settings tab's self-test
SelfTestCtx ==
    [room |-> "Room 1", gas |-> "NH3", value |-> <<3000>>, status |-> "WARN",
     thresholds |-> << [mode |-> "high", warn |-> 2500, alarm |-> 3500,
                        units |-> "ppm", ints |-> TRUE] >>,
     simulate |-> FALSE]

\* rooms and detectors the chat is used in, and the rooms whose
\* Simulate-leak button is clicked
ChatKeys == {<<"Room 3", "O2">>, <<"Room 2", "CO">>}
SimRooms == {"Room 3"}

\* latest readings of a chat context: none, and the gas's alarm cutoff
ChatValues(gas) == {<<>>, <<THRESHOLDS[gas].alarm>>}

\* the contexts the callers of ask_ai build in the current session state
Contexts ==
    UNION {{RoomChatCtx(k[1], k[2], v) : v \in ChatValues(k[2])} : k \in ChatKeys}
    \cup {GlobalCtx, SelfTestCtx}

\* prompts: whitespace only, and a question with surrounding whitespace
Prompts == {<<" ">>, <<" ", "vent?", " ">>}

-----------------------------------------------------------------------------
(* Page controller (app.py): one script run from top to bottom.  A run is  *)
(* computed on a record S that carries the session entries the script      *)
(* reads and writes together with a trace of the run: how it ended, which  *)
(* parts of the page it reached, which messages it showed, which history   *)
(* functions it called.  The history look-ups of a run (the status chips   *)
(* of the overview, the series fetched for the chart) are made in the      *)
(* store as the import at the top of the script left it, and handed to the *)
(* part of the page that makes them.                                       *)

\* st.query_params without a room and a det key
NoParams == [room |-> "", det |-> ""]

\* the flags of st.session_state["room_ops"][room]
Flags == {"close_shutter", "ventilate", "ack", "reset"}

NoOps == [r \in RoomSet |-> {}]

\* f"{room}::{selected_detector}"
LsKey(room, det) == <<room, "::", det>>

LsKeys == {LsKey(k[1], k[2]) : k \in Keys}

\* no "last_status" entry for any pair
NoStatus == [k \in LsKeys |-> None]

\* no "ai_log" entry for any room
NoLog == [r \in RoomSet |-> <<>>]

\* no stored widget state: <<>>, or <<[value, options, index]>> of the
\* selectbox as it was last rendered; None, or the option of the "Range"
\* radio with key f"rng_{room}_{selected_detector}"
NoWidgets == [room_sel |-> <<>>, det_sel |-> <<>>, rng |-> [k \in LsKeys |-> None]]

\* seconds the wall clock advances between two script runs, and how often
TickSecs == 660
MaxTicks == 1

\* the options of the "Range" radio that are told apart by a series
\* sampled every FreqMin minutes
Periods == <<"Last 10 min", "7 days">>

\* the question typed into a chat input
ChatPrompt == <<"vent?">>

\* the prompt of the automatic comment on a status change
AutoPrompt(status) ==
    <<"Status changed to ", status, ". Provide actionable steps (max 4 bullets).">>

\* rooms picked with the quick-open buttons and the room selector, labels
\* picked with the detector selector, query strings a session is loaded with
PickRooms == {"Room 1", "Room Production"}
PickDets == {"NH3", "O2"}
Urls ==
    {[room |-> "", det |-> ""], [room |-> "Room Production", det |-> ""],
     [room |-> "Room Production", det |-> "O2"],
     [room |-> "Room Production", det |-> "CO"], [room |-> "Lab 9", det |-> "CO"],
     [room |-> "", det |-> "CO"]}

\* what triggers a script run: a page load or automatic rerun, or one
\* widget interaction (the force-rule toggle is left at its default)
Events ==
    {[kind |-> "load", arg |-> ""]}
    \cup {[kind |-> "open", arg |-> r] : r \in PickRooms}
    \cup {[kind |-> "room_sel", arg |-> r] : r \in PickRooms}
    \cup {[kind |-> "det_sel", arg |-> d] : d \in PickDets}
    \cup {[kind |-> "op", arg |-> f] : f \in {"sim"} \cup Flags}
    \cup {[kind |-> "range", arg |-> Periods[i]] : i \in 1..Len(Periods)}
    \cup {[kind |-> k, arg |-> ""] : k \in {"chat", "gchat", "export", "selftest"}}

SeqHas(seq, x) == \E i \in 1..Len(seq) : seq[i] = x

\* list.index(x)
IndexOf(seq, x) == CHOOSE i \in 1..Len(seq) : seq[i] = x /\ \A j \in 1..(i - 1) : seq[j] # x

\* the session as the run finds it, and an empty trace
Begin ==
    [current_room |-> current_room, selected_detector |-> selected_detector,
     qp |-> qp, room_ops |-> room_ops, simulate_by_room |-> simulate_by_room,
     force_rule_ai |-> force_rule_ai, last_status |-> last_status,
     ai_log |-> ai_log, widgets |-> widgets,
     outcome |-> "running", error |-> "", at |-> "",
     reached |-> {}, messages |-> {}, reads |-> {},
     room0 |-> "", det0 |-> "", det_in |-> None, tags |-> <<>>,
     period |-> Periods[1], rr_ops |-> {}, rr_simulate |-> FALSE, rr_ai |-> 0,
     status |-> <<>>, status_prev |-> None, ai_calls |-> 0, logged |-> 0,
     rr |-> "", rr_wrote |-> {}]

\* _d(k, v): the session defaults (the other defaults equal the values a
\* fresh session starts with)
Defaults(S) == [S EXCEPT !.current_room = IF @ = Unset THEN "Overview" ELSE @]

\* a sync that reads the room parameter only
QpSync_roomonly(S) ==
    [S EXCEPT !.current_room = IF S.qp.room # "" THEN unquote(S.qp.room) ELSE @]

\* query params -> session sync
QpSync(S) ==
    [S EXCEPT !.current_room = IF S.qp.room # "" THEN unquote(S.qp.room) ELSE @,
              !.selected_detector = IF S.qp.det # "" THEN unquote(S.qp.det) ELSE @]

\* a sanitizer that leaves the detector of a room without detectors alone
_sanitize_selected_detector_keep(S) ==
    LET room == S.current_room
        labels == get_detectors_for(room)
    IN IF room = "Overview" THEN [S EXCEPT !.selected_detector = None]
       ELSE IF Len(labels) = 0 THEN [S EXCEPT !.qp.room = room]
       ELSE IF ~SeqHas(labels, S.selected_detector)
       THEN [S EXCEPT !.selected_detector = labels[1],
                      !.qp = [room |-> room, det |-> labels[1]]]
       ELSE S

\* a sanitizer that replaces an invalid selection by the room's last detector
_sanitize_selected_detector_last(S) ==
    LET room == S.current_room
        labels == get_detectors_for(room)
    IN IF room = "Overview" THEN [S EXCEPT !.selected_detector = None]
       ELSE IF Len(labels) = 0
       THEN [S EXCEPT !.selected_detector = None, !.qp.room = room]
       ELSE IF ~SeqHas(labels, S.selected_detector)
       THEN [S EXCEPT !.selected_detector = labels[Len(labels)],
                      !.qp = [room |-> room, det |-> labels[Len(labels)]]]
       ELSE S

_sanitize_selected_detector(S) ==
    LET room == S.current_room
        labels == get_detectors_for(room)
    IN IF room = "Overview" THEN [S EXCEPT !.selected_detector = None]
       ELSE IF Len(labels) = 0
       THEN [S EXCEPT !.selected_detector = None, !.qp.room = room]
       ELSE IF ~SeqHas(labels, S.selected_detector)
       THEN [S EXCEPT !.selected_detector = labels[1],
                      !.qp = [room |-> room, det |-> labels[1]]]
       ELSE S

\* the sanitizer call at the top of the script; the trace keeps the active
\* room, the detector the call finds and the detector it leaves
SanitizeTop(S) ==
    LET T == _sanitize_selected_detector(S)
    IN [T EXCEPT !.room0 = T.current_room, !.det0 = T.selected_detector,
                 !.det_in = S.selected_detector]

\* st.query_params.update({"room": rn, **({"det": d} if d else {})})
UpdateParams(S, rn) ==
    [S EXCEPT !.qp.room = rn,
              !.qp.det = IF S.selected_detector # None THEN S.selected_detector ELSE @]

\* st.rerun() at the given line
Rerun(S, line) == [S EXCEPT !.outcome = "rerun", !.at = line]

\* an exception that nothing catches
Raise(S, exc, line) == [S EXCEPT !.outcome = "exception", !.error = exc, !.at = line]

\* the overview tab: render_overview (ov is what it draws), then the
\* quick-open buttons
OverviewTab(S, e, ov) ==
    IF S.outcome # "running" THEN S
    ELSE LET S1 == [S EXCEPT !.reached = @ \cup {"overview"},
                             !.messages = IF ov.found THEN @ ELSE @ \cup {"err_overview"},
                             !.reads = IF ov.found THEN @ \cup {"latest_value"} ELSE @,
                             !.tags = ov.tags]
         IN IF e.kind = "open"
            THEN Rerun(UpdateParams(
                     _sanitize_selected_detector(
                         [S1 EXCEPT !.current_room = e.arg, !.selected_detector = None]),
                     e.arg), "app.py:188")
            ELSE S1

\* the value st.selectbox(options, index, key) returns: the option at index
\* for a widget without stored state; for a widget rendered with the same
\* arguments as before, the user's pick when this run was triggered by it
\* and the stored value otherwise; a widget rendered with other arguments
\* is a new widget and returns the option at index
Selectbox(stored, options, index, user) ==
    IF stored = <<>> THEN options[index]
    ELSE IF stored[1].options = options /\ stored[1].index = index
    THEN IF user # <<>> /\ SeqHas(options, user[1]) THEN user[1] ELSE stored[1].value
    ELSE options[index]

\* the room selector of the room tab
RoomSelector(S, e) ==
    IF S.outcome # "running" THEN S
    ELSE LET current == IF SeqHas(ROOMS, S.current_room) THEN S.current_room ELSE ROOMS[1]
             index == IndexOf(ROOMS, current)
             rsel == Selectbox(S.widgets.room_sel, ROOMS, index,
                               IF e.kind = "room_sel" THEN <<e.arg>> ELSE <<>>)
             S1 == [S EXCEPT !.reached = @ \cup {"room_select"},
                             !.widgets.room_sel =
                                 << [value |-> rsel, options |-> ROOMS, index |-> index] >>]
         IN IF rsel # S.current_room
            THEN Rerun(UpdateParams(
                     _sanitize_selected_detector(
                         [S1 EXCEPT !.current_room = rsel, !.selected_detector = None]),
                     rsel), "app.py:203")
            ELSE S1

\* the detector selector of the room tab
DetectorSelector(S, e) ==
    IF S.outcome # "running" THEN S
    ELSE LET labels == IF SeqHas(ROOMS, S.current_room)
                       THEN get_detectors_for(S.current_room) ELSE <<>>
         IN IF Len(labels) = 0
            THEN [S EXCEPT !.messages = @ \cup {"info_no_detectors"}]
            ELSE LET curdet == IF S.selected_detector # None
                               THEN S.selected_detector ELSE labels[1]
                     index == IF SeqHas(labels, curdet) THEN IndexOf(labels, curdet) ELSE 1
                     dsel == Selectbox(S.widgets.det_sel, labels, index,
                                       IF e.kind = "det_sel" THEN <<e.arg>> ELSE <<>>)
                     S1 == [S EXCEPT !.reached = @ \cup {"det_select"},
                                     !.widgets.det_sel =
                                         << [value |-> dsel, options |-> labels,
                                             index |-> index] >>]
                 IN IF dsel # S.selected_detector
                    THEN Rerun([S1 EXCEPT !.selected_detector = dsel,
                                          !.qp = [room |-> S.current_room, det |-> dsel]],
                               "app.py:213")
                    ELSE S1

\* an operator console whose reset button also ends the simulated leak
OperatorConsole_reset(S, e) ==
    IF S.outcome # "running" \/ S.current_room = "Overview" THEN S
    ELSE LET room == S.current_room
             S1 == [S EXCEPT !.reached = @ \cup {"console"}]
         IN IF e.kind # "op" THEN S1
            ELSE IF e.arg = "sim"
            THEN [S1 EXCEPT !.simulate_by_room = @ \cup {room}]
            ELSE [S1 EXCEPT !.room_ops[room] = @ \cup {e.arg},
                            !.simulate_by_room = IF e.arg = "reset" THEN @ \ {room} ELSE @]

\* the operator console: a clicked button sets its flag and nothing else
OperatorConsole(S, e) ==
    IF S.outcome # "running" \/ S.current_room = "Overview" THEN S
    ELSE LET room == S.current_room
             S1 == [S EXCEPT !.reached = @ \cup {"console"}]
         IN IF e.kind # "op" THEN S1
            ELSE IF e.arg = "sim"
            THEN [S1 EXCEPT !.simulate_by_room = @ \cup {room}]
            ELSE [S1 EXCEPT !.room_ops[room] = @ \cup {e.arg}]

\* the option the "Range" radio of render_room returns in this run: the
\* one just picked, else the one stored under its key, else the first
RadioValue(S, e) ==
    LET key == LsKey(S.current_room, S.selected_detector)
    IN IF e.kind = "range" THEN e.arg
       ELSE IF key \in LsKeys /\ S.widgets.rng[key] # None THEN S.widgets.rng[key]
       ELSE Periods[1]

\* the radio is drawn: its option is stored under its key
Radio(S) ==
    [S EXCEPT !.reached = @ \cup {"radio"},
              !.widgets.rng[LsKey(S.current_room, S.selected_detector)] = S.period]

\* the parameters of history.stats(room, label, hours=24)
StatsParams == {"room", "label", "hours"}

\* start of the chart range, seconds
RangeStart(period, now) ==
    IF period = "Last 10 min" THEN now - 10 * 60 ELSE now - 7 * 24 * 3600

\* the room's chat input of render_room
RoomChat(S, e) ==
    LET S1 == [S EXCEPT !.reached = @ \cup {"chat_input"}]
    IN IF e.kind # "chat" THEN S1
       ELSE [S1 EXCEPT !.reads = @ \cup {"fetch_series", "stats"},
                       !.ai_calls = @ + 1]

\* a status evaluation that logs an entry when the status did not change
StatusAndLog_always(S, e, df, kw, oc) ==
    LET room == S.current_room
        det == S.selected_detector
        latest == df[Len(df)].value
        status == _status_for(det, latest).status
        key == LsKey(room, det)
        last == S.last_status[key]
        S1 == [S EXCEPT !.status = <<status>>, !.status_prev = last]
    IN IF last = status
       THEN RoomChat([S1 EXCEPT !.logged = @ + 1,
                                !.ai_log[room] =
                                    Append(@, [ts |-> clock, text |-> <<"no change">>])],
                     e)
       ELSE LET S2 == [S1 EXCEPT !.last_status[key] = status]
            IN IF kw \notin StatsParams
               THEN Raise([S2 EXCEPT !.rr = "raised"], "TypeError", "facility.py:361")
               ELSE LET ctx == [room |-> room, gas |-> det, value |-> <<latest>>,
                                status |-> status, thresholds |-> ThrOf(det),
                                simulate |-> room \in S.simulate_by_room]
                        answer == ask_ai(AutoPrompt(status), ctx, S.force_rule_ai, oc).answer
                    IN RoomChat(
                           [S2 EXCEPT !.reads = @ \cup {"stats"},
                                      !.ai_calls = @ + 1,
                                      !.logged = @ + 1,
                                      !.ai_log[room] =
                                          Append(@, [ts |-> clock, text |-> answer])],
                           e)

\* render_room from the status evaluation on: the automatic comment on a
\* status change, then the chat; kw is the keyword the statistics are
\* asked with
StatusAndLog(S, e, df, kw, oc) ==
    LET room == S.current_room
        det == S.selected_detector
        latest == df[Len(df)].value
        status == _status_for(det, latest).status
        key == LsKey(room, det)
        last == S.last_status[key]
        S1 == [S EXCEPT !.status = <<status>>, !.status_prev = last]
    IN IF last = status THEN RoomChat(S1, e)
       ELSE LET S2 == [S1 EXCEPT !.last_status[key] = status]
            IN IF kw \notin StatsParams
               THEN Raise([S2 EXCEPT !.rr = "raised"], "TypeError", "facility.py:361")
               ELSE LET ctx == [room |-> room, gas |-> det, value |-> <<latest>>,
                                status |-> status, thresholds |-> ThrOf(det),
                                simulate |-> room \in S.simulate_by_room]
                        answer == ask_ai(AutoPrompt(status), ctx, S.force_rule_ai, oc).answer
                    IN RoomChat(
                           [S2 EXCEPT !.reads = @ \cup {"stats"},
                                      !.ai_calls = @ + 1,
                                      !.logged = @ + 1,
                                      !.ai_log[room] =
                                          Append(@, [ts |-> clock, text |-> answer])],
                           e)

\* a render_room that does not look for the room image
render_room_noimage(S, e, df, kw, oc) ==
    LET S1 == [Radio(S) EXCEPT !.reads = @ \cup {"fetch_series"}]
    IN IF S.selected_detector = None
       THEN [S EXCEPT !.messages = @ \cup {"info_click_detector"}, !.rr = "no_detector"]
       ELSE IF Len(df) = 0
       THEN RoomChat([S1 EXCEPT !.messages = @ \cup {"info_no_data"}], e)
       ELSE StatusAndLog(S1, e, df, kw, oc)

\* facility.render_room(images_dir, room, simulate, selected_detector, ...)
\* with room and selected_detector taken from the session; df is what
\* history.fetch_series returns for them and the chosen range
render_room(S, e, df, kw, oc) ==
    LET room_path == _find_first(RoomFilesOf(S.current_room))
        S1 == [Radio(S) EXCEPT !.reads = @ \cup {"fetch_series"}]
    IN IF room_path = <<>>
       THEN [S EXCEPT !.messages = @ \cup {"err_room_image"}, !.rr = "image"]
       ELSE IF S.selected_detector = None
       THEN [S EXCEPT !.messages = @ \cup {"info_click_detector"}, !.rr = "no_detector"]
       ELSE IF Len(df) = 0
       THEN RoomChat([S1 EXCEPT !.messages = @ \cup {"info_no_data"}], e)
       ELSE StatusAndLog(S1, e, df, kw, oc)

\* the session entries a call changed
Wrote(S, T) ==
    {n \in {"last_status", "ai_log", "room_ops", "simulate_by_room"} :
        CASE n = "last_status" -> T.last_status # S.last_status
          [] n = "ai_log" -> T.ai_log # S.ai_log
          [] n = "room_ops" -> T.room_ops # S.room_ops
          [] OTHER -> T.simulate_by_room # S.simulate_by_room}

\* a room tab that leaves the operator flags set after render_room
RoomBody_keep(S, e, df, oc) ==
    IF S.outcome # "running" \/ S.current_room = "Overview" THEN S
    ELSE LET room == S.current_room
             S1 == [S EXCEPT !.reached = @ \cup {"render_room"},
                             !.rr_ops = S.room_ops[room],
                             !.rr_simulate = room \in S.simulate_by_room]
             T == render_room(S1, e, df, "window_hours", oc)
             T1 == [T EXCEPT !.rr = IF @ = "" THEN "end" ELSE @,
                             !.rr_wrote = Wrote(S1, T),
                             !.rr_ai = T.ai_calls - S1.ai_calls]
         IN IF T1.outcome # "running" THEN T1
            ELSE [T1 EXCEPT !.reached = @ \cup {"ops_cleared"}]

\* the rest of the room tab: render_room, then the one-shot ops are cleared
RoomBody(S, e, df, oc) ==
    IF S.outcome # "running" \/ S.current_room = "Overview" THEN S
    ELSE LET room == S.current_room
             S1 == [S EXCEPT !.reached = @ \cup {"render_room"},
                             !.rr_ops = S.room_ops[room],
                             !.rr_simulate = room \in S.simulate_by_room]
             T == render_room(S1, e, df, "window_hours", oc)
             T1 == [T EXCEPT !.rr = IF @ = "" THEN "end" ELSE @,
                             !.rr_wrote = Wrote(S1, T),
                             !.rr_ai = T.ai_calls - S1.ai_calls]
         IN IF T1.outcome # "running" THEN T1
            ELSE [T1 EXCEPT !.room_ops[room] = {},
                            !.reached = @ \cup {"ops_cleared"}]

\* the global assistant tab: a question builds the facility snapshot
\* (latest_value of every detector) and asks the responder
AiTab(S, e) ==
    IF S.outcome # "running" THEN S
    ELSE LET S1 == [S EXCEPT !.reached = @ \cup {"tab_ai"}]
         IN IF e.kind # "gchat" THEN S1
            ELSE [S1 EXCEPT !.reads = @ \cup {"latest_value"}, !.ai_calls = @ + 1]

\* the logs tab: the event list, or a note when there is none; the export
\* button builds the HTML from the log and changes nothing
LogsTab(S, e) ==
    IF S.outcome # "running" THEN S
    ELSE [S EXCEPT !.reached = @ \cup {"tab_logs"}
                               \cup (IF e.kind = "export" THEN {"export"} ELSE {}),
                   !.messages = IF \A r \in RoomSet : Len(S.ai_log[r]) = 0
                                THEN @ \cup {"info_no_events"} ELSE @]

\* the functions utils/ai.py defines
AiModule == {"is_available", "_rule_based", "ask_ai"}

\* the settings tab: the force-rule toggle and the self-test button
SettingsTab(S, e) ==
    IF S.outcome # "running" THEN S
    ELSE LET S1 == [S EXCEPT !.reached = @ \cup {"tab_settings"},
                             !.force_rule_ai = IF e.kind = "toggle" THEN ~@ ELSE @]
         IN IF e.kind # "selftest" THEN S1
            ELSE LET S2 == [S1 EXCEPT !.ai_calls = @ + 1]
                 IN IF "backend_name" \notin AiModule
                    THEN Raise(S2, "AttributeError", "app.py:299")
                    ELSE S2

\* the end of the script
Finish(S) == IF S.outcome = "running" THEN [S EXCEPT !.outcome = "completed"] ELSE S

\* widget state after the run: a widget the run did not render loses its
\* state, unless the run died of an exception
KeepWidgets(S) ==
    [room_sel |-> IF "room_select" \in S.reached \/ S.outcome = "exception"
                  THEN S.widgets.room_sel ELSE <<>>,
     det_sel |-> IF "det_select" \in S.reached \/ S.outcome = "exception"
                 THEN S.widgets.det_sel ELSE <<>>,
     rng |-> [k \in LsKeys |->
                 IF S.outcome = "exception"
                    \/ ("radio" \in S.reached
                        /\ k = LsKey(S.current_room, S.selected_detector))
                 THEN S.widgets.rng[k] ELSE None]]

\* the event can trigger a run of the page as the last run left it: a
\* fresh session and an st.rerun() are followed by a plain run, a widget
\* is used only if the last run put it on the page
CanTrigger(e) ==
    /\ (run.op = "none") => e.kind = "load"
    /\ (run.op = "run" /\ run.outcome = "rerun") => e.kind = "load"
    /\ e.kind # "load" =>
          /\ run.op = "run"
          /\ CASE e.kind = "open" -> "overview" \in run.reached
               [] e.kind = "room_sel" ->
                     "room_select" \in run.reached /\ e.arg # current_room
               [] e.kind = "det_sel" ->
                     /\ "det_select" \in run.reached
                     /\ widgets.det_sel # <<>>
                     /\ SeqHas(widgets.det_sel[1].options, e.arg)
                     /\ e.arg # selected_detector
               [] e.kind = "op" -> "console" \in run.reached
               [] e.kind = "range" ->
                     /\ "radio" \in run.reached
                     /\ e.arg # widgets.rng[LsKey(current_room, selected_detector)]
               [] e.kind = "chat" -> "chat_input" \in run.reached
               [] e.kind = "gchat" -> "tab_ai" \in run.reached
               [] e.kind = "export" -> "tab_logs" \in run.reached
               [] OTHER -> "tab_settings" \in run.reached

\* facility_module._sim_key: f"{room}::{label}"
_sim_key(room, label) == <<room, "::", label>>

\* detectors of facility_module.DETECTORS whose live value is simulated
SimPairs == {<<"Room 1", "NH3">>, <<"Room Production", "CH4">>}

SimKeys == {_sim_key(p[1], p[2]) : p \in SimPairs}

\* "det_sim" without a value for any key
NoSim == [k \in SimKeys |-> <<>>]

\* "det_buf" without a value for any key
NoBuf == [k \in SimKeys |-> <<>>]

\* random.uniform(0.0, 1.0) * 10.0, in hundredths
InitDraws == {0, 20, 1000}

\* random.uniform(-0.5, 0.9), in hundredths
StepDraws == {-50, 90}

\* a _next_value that stores the stepped value as it is
_next_value_raw(sim, room, label, draw, step) ==
    LET key == _sim_key(room, label)
        v0 == IF sim[key] = <<>> THEN draw ELSE sim[key][1]
        v == v0 + step
    IN [value |-> v, det_sim |-> [sim EXCEPT ![key] = <<v>>]]

\* facility_module._next_value(room, label) on the stored values sim, with
\* the two random draws given: the value returned and the values stored
_next_value(sim, room, label, draw, step) ==
    LET key == _sim_key(room, label)
        v0 == IF sim[key] = <<>> THEN draw ELSE sim[key][1]
        v == Max(0, v0 + step)
    IN [value |-> v, det_sim |-> [sim EXCEPT ![key] = <<v>>]]

\* a _series that keeps the first n values of the buffer
_series_head(sim, buf, room, label, n, draw, step) ==
    LET key == _sim_key(room, label)
        nv == _next_value(sim, room, label, draw, step)
        all == Append(buf[key], nv.value)
        kept == IF Len(all) > n THEN SubSeq(all, 1, n) ELSE all
    IN [value |-> nv.value, series |-> kept, det_sim |-> nv.det_sim,
        det_buf |-> [buf EXCEPT ![key] = kept]]

\* facility_module._series(room, label, n) on the stored values and buffers
_series(sim, buf, room, label, n, draw, step) ==
    LET key == _sim_key(room, label)
        nv == _next_value(sim, room, label, draw, step)
        all == Append(buf[key], nv.value)
        kept == IF Len(all) > n THEN SubSeq(all, Len(all) - n + 1, Len(all)) ELSE all
    IN [value |-> nv.value, series |-> kept, det_sim |-> nv.det_sim,
        det_buf |-> [buf EXCEPT ![key] = kept]]

\* an invocation of ask_ai(prompt, context, force_rule)
AskAi ==
    \E prompt \in Prompts, context \in Contexts, force_rule \in BOOLEAN :
      \E outcome \in (IF force_rule \/ api_key = "" \/ ~OpenAI
                      THEN {"none"} ELSE Outcomes) :
        /\ ai_ret' = [op |-> "ask_ai", prompt |-> prompt, context |-> context,
                      force_rule |-> force_rule, outcome |-> outcome]
                     @@ ask_ai(prompt, context, force_rule, outcome)
        /\ ai_prev' = IF ai_ret.op = "ask_ai"
                      THEN [op |-> "ask_ai", prompt |-> ai_ret.prompt,
                            context |-> ai_ret.context, path |-> ai_ret.path,
                            answer |-> ai_ret.answer]
                      ELSE NoCall
        /\ UNCHANGED <<hist, hist_days, hist_gen, clock, api_key, OpenAI,
                       simulate_by_room, status_ret, fetch_ret, fetch_prev, ops_ret>>
        /\ UNCHANGED <<images, facility_imported, page, init_ret, ov_ret, live, worst_ret>>

\* the Simulate-leak button of a room
SimulateLeak ==
    \E room \in SimRooms :
        /\ simulate_by_room' = simulate_by_room \cup {room}
        /\ UNCHANGED <<hist, hist_days, hist_gen, clock, api_key, OpenAI,
                       status_ret, ai_ret, ai_prev, fetch_ret, fetch_prev, ops_ret>>
        /\ UNCHANGED <<images, facility_imported, page, init_ret, ov_ret, live, worst_ret>>

\* a call of _status_for(label, value)
StatusFor ==
    \E label \in Labels, value \in StatusValues :
        /\ status_ret' = [op |-> "status_for", label |-> label, value |-> value,
                          status |-> _status_for(label, value).status,
                          msg |-> _status_for(label, value).msg]
        /\ UNCHANGED <<hist, hist_days, hist_gen, clock, api_key, OpenAI,
                       simulate_by_room, ai_ret, ai_prev, fetch_ret, fetch_prev, ops_ret>>
        /\ UNCHANGED <<images, facility_imported, page, init_ret, ov_ret, live, worst_ret>>

\* init_if_needed with any noise levels and spike centres
HistInit ==
    \E days \in DaysSet, spw \in SpwSet :
            /\ init_if_needed(days, spw, NoiseLevels)
            /\ UNCHANGED <<clock, api_key, OpenAI, simulate_by_room, status_ret,
                           ai_ret, ai_prev, fetch_ret, fetch_prev, ops_ret>>
            /\ UNCHANGED <<images, facility_imported, page, init_ret, ov_ret, live, worst_ret>>

\* init_if_needed as facility.py calls it (default spikes_per_week), with
\* zero noise and any spike centre
HistInitQuiet ==
    \E days \in DaysSet :
            /\ init_if_needed(days, 1, {0})
            /\ UNCHANGED <<clock, api_key, OpenAI, simulate_by_room, status_ret,
                           ai_ret, ai_prev, fetch_ret, fetch_prev, ops_ret>>
            /\ UNCHANGED <<images, facility_imported, page, init_ret, ov_ret, live, worst_ret>>

\* a call of fetch_series(room, label, start_ts, end_ts)
FetchSeries ==
    \E k \in FetchKeys, t0 \in TimeArgs, t1 \in TimeArgs :
        /\ fetch_ret' = [op |-> "fetch", room |-> k[1], label |-> k[2],
                         start_ts |-> t0, end_ts |-> t1, gen |-> hist_gen,
                         out |-> fetch_series(k[1], k[2], t0, t1)]
        /\ fetch_prev' = fetch_ret
        /\ hist' = fetch_store(k[1], k[2], t0, t1)
        /\ UNCHANGED <<hist_days, hist_gen, clock, api_key, OpenAI,
                       simulate_by_room, status_ret, ai_ret, ai_prev, ops_ret>>
        /\ UNCHANGED <<images, facility_imported, page, init_ret, ov_ret, live, worst_ret>>

\* a call of apply_runtime_ops on a stored series
ApplyRuntimeOps ==
    \E k \in OpsKeys, simulate \in BOOLEAN, ops \in OpsDraws :
        /\ HasFrame(k[1], k[2])
        /\ ops_ret' = [op |-> "ops", room |-> k[1], label |-> k[2],
                       simulate |-> simulate, ops |-> ops,
                       df |-> hist.frames[k],
                       out |-> apply_runtime_ops(hist.frames[k], k[1], k[2], simulate, ops)]
        /\ UNCHANGED <<hist, hist_days, hist_gen, clock, api_key, OpenAI,
                       simulate_by_room, status_ret, ai_ret, ai_prev,
                       fetch_ret, fetch_prev>>
        /\ UNCHANGED <<images, facility_imported, page, init_ret, ov_ret, live, worst_ret>>

\* days values of the init_if_needed calls of one session
DaysDraws == {7, 8}

\* the number of generations after which no further call is followed
MaxGen == 3

\* a call of init_if_needed(DETECTORS, days, spikes_per_week) with zero
\* noise and any spike centres
HistInitDays ==
    \E days \in DaysDraws, spw \in SpwSet :
        /\ hist_gen < MaxGen
        /\ init_if_needed(days, spw, {0})
        /\ init_ret' = [op |-> "init", days |-> days, spikes_per_week |-> spw,
                        had |-> hist.present, had_days |-> hist_days]
        /\ UNCHANGED <<clock, api_key, OpenAI, simulate_by_room, status_ret,
                       ai_ret, ai_prev, fetch_ret, fetch_prev, ops_ret,
                       images, facility_imported, page, ov_ret, live, worst_ret>>

\* a call of facility.render_overview(images_dir)
RenderOverview ==
    /\ ov_ret' = [op |-> "render_overview", module |-> "facility"] @@ render_overview
    /\ UNCHANGED <<hist, hist_days, hist_gen, clock, api_key, OpenAI,
                   simulate_by_room, status_ret, ai_ret, ai_prev, fetch_ret,
                   fetch_prev, ops_ret, images, facility_imported, page, init_ret,
                   live, worst_ret>>

\* a call of facility_module.render_overview(images_dir)
RenderOverviewModule ==
    /\ ov_ret' = [op |-> "render_overview", module |-> "facility_module"]
                 @@ render_overview_module
    /\ UNCHANGED <<hist, hist_days, hist_gen, clock, api_key, OpenAI,
                   simulate_by_room, status_ret, ai_ret, ai_prev, fetch_ret,
                   fetch_prev, ops_ret, images, facility_imported, page, init_ret,
                   live, worst_ret>>

\* one script run of app.py, triggered by event e: the import of
\* utils.facility (which generates the history the first time the process
\* imports it), then the page from top to bottom
ScriptRun ==
    /\ UNCHANGED <<clock, api_key, OpenAI, images, status_ret, ai_ret, ai_prev,
                   fetch_ret, fetch_prev, ops_ret, init_ret, ov_ret, live, worst_ret>>
    /\ facility_imported' = TRUE
    /\ IF facility_imported
       THEN UNCHANGED <<hist, hist_days, hist_gen>>
       ELSE init_if_needed(7, 1, {0})
    /\ \E ov \in {render_overview'}, S1 \in {SanitizeTop(QpSync(Defaults(Begin)))} :
       \E e \in Events,
          oc \in (IF api_key = "" \/ ~OpenAI THEN {"none"} ELSE Outcomes) :
        /\ CanTrigger(e)
        /\ \E S2 \in {OverviewTab(S1, e, ov)} :
           \E S3 \in {RoomSelector(S2, e)} :
           \E Sc \in {OperatorConsole(DetectorSelector(S3, e), e)} :
           \E S4 \in {[Sc EXCEPT !.period = RadioValue(Sc, e)]} :
           \E df \in {fetch_series(S4.current_room, S4.selected_detector,
                                   RangeStart(S4.period, clock), clock)'} :
           \E S5 \in {RoomBody(S4, e, df, oc)} :
           \E S6 \in {SettingsTab(LogsTab(AiTab(S5, e), e), e)} :
           \E S \in {Finish(S6)} :
              /\ current_room' = S.current_room
              /\ selected_detector' = S.selected_detector
              /\ qp' = S.qp
              /\ room_ops' = S.room_ops
              /\ simulate_by_room' = S.simulate_by_room
              /\ force_rule_ai' = S.force_rule_ai
              /\ last_status' = S.last_status
              /\ ai_log' = S.ai_log
              /\ widgets' = KeepWidgets(S)
              /\ run' = [op |-> "run", event |-> e, outcome |-> S.outcome,
                         error |-> S.error, at |-> S.at,
                         reached |-> S.reached, messages |-> S.messages,
                         reads |-> S.reads, room0 |-> S.room0, det0 |-> S.det0,
                         det_in |-> S.det_in, period |-> S.period,
                         rr_ops |-> S.rr_ops, rr_simulate |-> S.rr_simulate,
                         rr_ai |-> S.rr_ai,
                         tags |-> S.tags, status |-> S.status,
                         status_prev |-> S.status_prev,
                         ai_calls |-> S.ai_calls, logged |-> S.logged,
                         rr |-> S.rr, rr_wrote |-> S.rr_wrote,
                         first |-> run.op = "none",
                         chain |-> IF run.op = "run" /\ run.outcome = "rerun"
                                   THEN run.chain + 1 ELSE 0,
                         hist_at_start |-> hist.present,
                         generated |-> hist_gen' # hist_gen]

\* a browser loads the page (typed address, reload, or a hotspot or
\* detector link of the page, which all navigate the top window): a new
\* session with an empty session state in the same process
NewSession ==
    \E u \in Urls :
        /\ qp' = u
        /\ hist' = NoHist
        /\ hist_days' = NoDays
        /\ simulate_by_room' = {}
        /\ current_room' = Unset
        /\ selected_detector' = None
        /\ room_ops' = NoOps
        /\ force_rule_ai' = FALSE
        /\ last_status' = NoStatus
        /\ ai_log' = NoLog
        /\ widgets' = NoWidgets
        /\ run' = NoCall
        /\ det_sim' = NoSim
        /\ det_buf' = NoBuf
        /\ UNCHANGED <<hist_gen, clock, api_key, OpenAI, images, facility_imported,
                       status_ret, ai_ret, ai_prev, fetch_ret, fetch_prev,
                       ops_ret, init_ret, ov_ret, sim_ret, worst_ret>>

\* time passes between two script runs
Tick ==
    /\ clock < Clock0 + MaxTicks * TickSecs
    /\ clock' = clock + TickSecs
    /\ UNCHANGED <<hist, hist_days, hist_gen, api_key, OpenAI, simulate_by_room,
                   status_ret, ai_ret, ai_prev, fetch_ret, fetch_prev, ops_ret,
                   images, facility_imported, page, init_ret, ov_ret, live,
                   worst_ret>>

\* the state of a fresh session before the first script run, in a process
\* with the given credential / SDK availability and image files
InitSession(key, sdk, files) ==
    /\ hist = NoHist
    /\ hist_days = NoDays
    /\ hist_gen = 0
    /\ clock = Clock0
    /\ api_key = key
    /\ OpenAI = sdk
    /\ simulate_by_room = {}
    /\ status_ret = NoCall
    /\ ai_ret = NoCall
    /\ ai_prev = NoCall
    /\ fetch_ret = NoCall
    /\ fetch_prev = NoCall
    /\ ops_ret = NoCall
    /\ images = files
    /\ facility_imported = FALSE
    /\ current_room = Unset
    /\ selected_detector = None
    /\ qp = NoParams
    /\ room_ops = NoOps
    /\ force_rule_ai = FALSE
    /\ last_status = NoStatus
    /\ ai_log = NoLog
    /\ widgets = NoWidgets
    /\ run = NoCall
    /\ init_ret = NoCall
    /\ ov_ret = NoCall
    /\ det_sim = NoSim
    /\ det_buf = NoBuf
    /\ sim_ret = NoCall
    /\ worst_ret = NoCall

\* the same with every image file of the repository's candidates in place
InitWith(key, sdk) == InitSession(key, sdk, AllFiles)

InitStore == InitWith("", FALSE)

\* any combination of a configured credential and an importable SDK
InitAI == \E key \in {"", "sk-test"}, sdk \in BOOLEAN : InitWith(key, sdk)

NextAI == AskAi \/ SimulateLeak
SpecAI == InitAI /\ [][NextAI]_vars

NextStatus == StatusFor \/ HistInitQuiet
SpecStatus == InitStore /\ [][NextStatus]_vars

NextHist == HistInit \/ ApplyRuntimeOps
SpecHist == InitStore /\ [][NextHist]_vars

NextFetch == HistInitQuiet \/ FetchSeries
SpecFetch == InitStore /\ [][NextFetch]_vars

NextInit == HistInitDays
SpecInit == InitStore /\ [][NextInit]_vars

\* image files that may or may not be in the images directory
OverviewFiles ==
    {"Overview.png", "overview.png", "Room 1.png", "Room 2.png", "Room 3 (1).png",
     "Room 12 17.png", "Room Production.png", "Room Production 2.png",
     "Room Production2.png"}

InitOverview == \E files \in SUBSET OverviewFiles : InitSession("", FALSE, files)

NextOverview == RenderOverview \/ RenderOverviewModule
SpecOverview == InitOverview /\ [][NextOverview]_vars

\* an images directory with the overview and every room image but Room 1's
PageFiles == AllFiles \ {"Room 1.png"}

InitPage == InitSession("", FALSE, PageFiles)

NextPage == ScriptRun \/ NewSession \/ Tick
SpecPage == InitPage /\ [][NextPage]_vars

\* buffer limits handed to _series: small stand-ins of n = 60 and n = 90
LimitDraws == {2, 3}

\* the number of simulator calls after which no further call is followed
MaxCalls == 4

SimCalls == IF sim_ret.op = "none" THEN 0 ELSE sim_ret.count

\* a call of _next_value(room, label), as render_room makes for each pin
NextValue ==
    \E p \in SimPairs, draw \in InitDraws, step \in StepDraws :
      \E r \in {_next_value(det_sim, p[1], p[2], draw, step)} :
        /\ SimCalls < MaxCalls
        /\ det_sim' = r.det_sim
        /\ sim_ret' = [op |-> "next_value", key |-> _sim_key(p[1], p[2]),
                       step |-> step, before |-> det_sim[_sim_key(p[1], p[2])],
                       value |-> r.value, count |-> SimCalls + 1]
        /\ UNCHANGED <<hist, hist_days, hist_gen, clock, api_key, OpenAI,
                       simulate_by_room, status_ret, ai_ret, ai_prev, fetch_ret,
                       fetch_prev, ops_ret, images, facility_imported, page,
                       init_ret, ov_ret, det_buf, worst_ret>>

\* a call of _series(room, label, n), as render_room makes for the trend
Series ==
    \E p \in SimPairs, n \in LimitDraws, draw \in InitDraws, step \in StepDraws :
      \E r \in {_series(det_sim, det_buf, p[1], p[2], n, draw, step)} :
        /\ SimCalls < MaxCalls
        /\ det_sim' = r.det_sim
        /\ det_buf' = r.det_buf
        /\ sim_ret' = [op |-> "series", key |-> _sim_key(p[1], p[2]), n |-> n,
                       step |-> step, before |-> det_sim[_sim_key(p[1], p[2])],
                       held |-> det_buf[_sim_key(p[1], p[2])],
                       value |-> r.value, series |-> r.series,
                       count |-> SimCalls + 1]
        /\ UNCHANGED <<hist, hist_days, hist_gen, clock, api_key, OpenAI,
                       simulate_by_room, status_ret, ai_ret, ai_prev, fetch_ret,
                       fetch_prev, ops_ret, images, facility_imported, page,
                       init_ret, ov_ret, worst_ret>>

NextLive == NextValue \/ Series
SpecLive == InitStore /\ [][NextLive]_vars

\* noise of the latest samples, hundredths: none, and two draws far in the
\* lower tail of np.random.normal(0, 0.25) that take O2 from its base of
\* 20.8 to below its warn and below its alarm cutoff
TailNoise == {0, -130, -280}

\* the detectors whose noise is drawn from TailNoise; the others get none
NoisyKeys == {k \in Keys : k[1] \in {"Room 3", "Room Production", "Room Production 2"}}

NoiseDraws ==
    {[k \in Keys |-> IF k \in NoisyKeys THEN g[k] ELSE 0] : g \in [NoisyKeys -> TailNoise]}

\* init_if_needed as facility.py calls it, each detector with its own noise
HistInitEach ==
    \E days \in DaysSet :
        /\ init_if_needed_each(days, 1, NoiseDraws)
        /\ UNCHANGED <<clock, api_key, OpenAI, simulate_by_room, status_ret,
                       ai_ret, ai_prev, fetch_ret, fetch_prev, ops_ret>>
        /\ UNCHANGED <<images, facility_imported, page, init_ret, ov_ret, live, worst_ret>>

\* a call of _room_worst_status(room) and one of build_facility_snapshot()
\* on the same store
RoomWorstStatus ==
    \E room \in RoomSet \cup {"Lab 9"} :
        /\ worst_ret' = [op |-> "worst", room |-> room,
                         worst |-> _room_worst_status(room),
                         snapshot |-> build_facility_snapshot,
                         gen |-> hist_gen]
        /\ UNCHANGED <<hist, hist_days, hist_gen, clock, api_key, OpenAI,
                       simulate_by_room, status_ret, ai_ret, ai_prev, fetch_ret,
                       fetch_prev, ops_ret, images, facility_imported, page,
                       init_ret, ov_ret, live>>

NextWorst == HistInitEach \/ RoomWorstStatus
SpecWorst == InitStore /\ [][NextWorst]_vars

-----------------------------------------------------------------------------
(* Properties *)

Statuses == {"OK", "WARN", "ALARM"}

\* C1: for a gas whose threshold record has mode "high", _status_for returns
\* ALARM iff value >= alarm, WARN iff warn <= value < alarm, and OK
\* otherwise; CO at 42.0 is WARN.
C1_HighModeStatus ==
    (status_ret.op = "status_for" /\ status_ret.label \in DOMAIN THRESHOLDS) =>
        LET thr == THRESHOLDS[status_ret.label]
            v == status_ret.value
        IN thr.mode = "high" =>
              /\ (status_ret.status = "ALARM") <=> (v >= thr.alarm)
              /\ (status_ret.status = "WARN") <=> (thr.warn <= v /\ v < thr.alarm)
              /\ (status_ret.status = "OK") <=> (v < thr.warn)
              /\ (status_ret.label = "CO" /\ v = 4200) => status_ret.status = "WARN"

C1_Witness ==
    /\ status_ret.op = "status_for"
    /\ status_ret.label = "CO" /\ status_ret.value = 4200
    /\ status_ret.status = "WARN"

\* C2: for a gas whose threshold record has mode "low" (O2), _status_for
\* returns ALARM iff value <= alarm, WARN iff alarm < value <= warn, and OK
\* otherwise; O2 at 17.5 is ALARM.
C2_LowModeStatus ==
    (status_ret.op = "status_for" /\ status_ret.label \in DOMAIN THRESHOLDS) =>
        LET thr == THRESHOLDS[status_ret.label]
            v == status_ret.value
        IN thr.mode = "low" =>
              /\ (status_ret.status = "ALARM") <=> (v <= thr.alarm)
              /\ (status_ret.status = "WARN") <=> (thr.alarm < v /\ v <= thr.warn)
              /\ (status_ret.status = "OK") <=> (v > thr.warn)
              /\ (status_ret.label = "O2" /\ v = 1750) => status_ret.status = "ALARM"

C2_Witness ==
    /\ status_ret.op = "status_for"
    /\ status_ret.label = "O2" /\ status_ret.value = 1750
    /\ status_ret.status = "ALARM"

\* C3: every _status_for call returns exactly one status of OK, WARN, ALARM,
\* returns OK for a label that has no THRESHOLDS record, and leaves the
\* session state as it was.
C3_StatusTotalStateless ==
    [][status_ret' # status_ret =>
          /\ status_ret'.status \in Statuses
          /\ status_ret'.label \notin DOMAIN THRESHOLDS => status_ret'.status = "OK"
          /\ session' = session]_vars

C3_Witness ==
    /\ status_ret.op = "status_for"
    /\ status_ret.label = "CH4" /\ status_ret.value = 5001
    /\ status_ret.status = "OK"
    /\ hist.present

\* the tokens of a string
Tokens(str) == {str[i] : i \in 1..Len(str)}

\* the string has at least one character
NonEmpty(str) == \E i \in 1..Len(str) : str[i] # ""

\* the conditions under which ask_ai answers from the template at once
RuleConditions(r) == r.force_rule \/ api_key = "" \/ ~OpenAI

C5_CallCountClaimed ==
    ai_ret.op = "ask_ai" =>
        ai_ret.calls = IF RuleConditions(ai_ret) THEN 0 ELSE 1

\* C5: one ask_ai invocation makes 0 hosted calls when force_rule is set, no
\* credential is configured, the SDK import failed or constructing the
\* client raises, and exactly 1 otherwise; a failed call is never retried.
C5_CallCount ==
    ai_ret.op = "ask_ai" =>
        /\ ai_ret.calls =
              IF RuleConditions(ai_ret) \/ ai_ret.outcome = "ctor_raises" THEN 0 ELSE 1
        /\ ai_ret.calls <= 1

C5_Witness ==
    /\ ai_ret.op = "ask_ai"
    /\ ~RuleConditions(ai_ret)
    /\ ai_ret.outcome = "call_raises"
    /\ ai_ret.calls = 1

\* C6: when the hosted path raises at any step, ask_ai returns exactly the
\* rule-based template's string for the same prompt and context, and no
\* error reaches the caller.
C6_HostedFallback ==
    (ai_ret.op = "ask_ai" /\ ai_ret.path = "hosted"
        /\ ai_ret.outcome \in {"ctor_raises", "call_raises", "read_raises"}) =>
        /\ ~ai_ret.raised
        /\ ai_ret.answer = _rule_based(ai_ret.prompt, ai_ret.context)

C6_Witness ==
    /\ ai_ret.op = "ask_ai" /\ ai_ret.path = "hosted"
    /\ ai_ret.outcome = "read_raises"
    /\ ai_ret.context.status = "ALARM"
    /\ NonEmpty(ai_ret.answer)

C8_FetchRange ==
    fetch_ret.op = "fetch" =>
        LET out == fetch_ret.out
            k == _key(fetch_ret.room, fetch_ret.label)
        IN /\ \A i \in 1..Len(out) :
                 /\ fetch_ret.start_ts <= out[i].t * 60
                 /\ out[i].t * 60 <= fetch_ret.end_ts
           /\ \A i \in 1..Len(out), j \in 1..Len(out) : i < j => out[i].t <= out[j].t
           /\ (k \notin Keys \/ fetch_ret.gen = 0) => out = <<>>
           /\ (k \in Keys /\ fetch_ret.gen > 0 /\ fetch_ret.gen = hist_gen) =>
                 \A i \in 1..Len(out) :
                     \E j \in 1..Len(hist.frames[k]) : hist.frames[k][j] = out[i]

C8_Witness ==
    /\ fetch_ret.op = "fetch"
    /\ hist.present
    /\ fetch_ret.gen = hist_gen
    /\ _key(fetch_ret.room, fetch_ret.label) \in Keys
    /\ Len(fetch_ret.out) > 1
    /\ Len(fetch_ret.out) < Len(hist.frames[_key(fetch_ret.room, fetch_ret.label)])
    /\ fetch_ret.out[1].t * 60 > fetch_ret.start_ts
    /\ fetch_ret.out[Len(fetch_ret.out)].t * 60 = fetch_ret.end_ts

InO2Band(v) == 1700 <= v /\ v <= 2100

\* C10: every value of every synthetic O2 series stays within 17-21 %, in
\* the generated history and after apply_runtime_ops.
C10_O2Band ==
    /\ hist.present =>
          \A k \in DOMAIN hist.frames :
              k[2] = "O2" =>
                  \A i \in 1..Len(hist.frames[k]) : InO2Band(hist.frames[k][i].value)
    /\ (ops_ret.op = "ops" /\ ops_ret.label = "O2") =>
          \A i \in 1..Len(ops_ret.out) : InO2Band(ops_ret.out[i].value)

\* C20: apply_runtime_ops with only the ventilate flag set pulls the last 20
\* samples toward the gas baseline: no sample of the tail ends farther from
\* the baseline than it was, the first of them is unchanged, and the final
\* sample ends at 40 % of its original distance from the baseline (to the
\* half hundredth the reading is rounded to).
C20_VentilatePull ==
    (/\ ops_ret.op = "ops" /\ ops_ret.ops = {"ventilate"} /\ ~ops_ret.simulate
     /\ Len(ops_ret.df) >= TailLen) =>
        LET n == Len(ops_ret.df)
            first == n - TailLen + 1
            b == BaseOf(ops_ret.label)
            old(i) == ops_ret.df[i].value
            new(i) == ops_ret.out[i].value
        IN /\ Len(ops_ret.out) = n
           /\ \A i \in first..n : Abs(new(i) - b) <= Abs(old(i) - b)
           /\ new(first) = old(first)
           /\ Abs(10 * (new(n) - b) - 4 * (old(n) - b)) <= 5

C20_Witness ==
    /\ ops_ret.op = "ops" /\ ops_ret.ops = {"ventilate"} /\ ~ops_ret.simulate
    /\ ops_ret.label = "NH3"
    /\ Len(ops_ret.df) >= TailLen
    /\ Abs(ops_ret.df[Len(ops_ret.df)].value - BaseOf("NH3")) >= 20
    /\ ops_ret.out[Len(ops_ret.df)].value # ops_ret.df[Len(ops_ret.df)].value
    /\ \E i \in (Len(ops_ret.df) - TailLen + 1)..Len(ops_ret.df) :
           Abs(ops_ret.df[i].value - BaseOf("NH3")) >= 500

\* C11 as claimed: when the overview image exists, render_overview emits
\* exactly one hotspot for each configured room that has an image file and
\* none for a room whose image file is missing; with all six room images
\* present it emits six hotspots, each linking to ?room=<that room>.
C11_HotspotPerImage ==
    (ov_ret.op = "render_overview" /\ ov_ret.found) =>
        LET HasImage(r) == IF ov_ret.module = "facility"
                           THEN _find_first(ROOM_FILES[r]) # <<>>
                           ELSE _first(ROOM_FILE_CANDIDATES[r]) # <<>>
            tags == ov_ret.tags
        IN /\ \A r \in RoomSet :
                 Cardinality({i \in 1..Len(tags) : tags[i].room = r})
                     = IF HasImage(r) THEN 1 ELSE 0
           /\ (\A r \in RoomSet : HasImage(r)) =>
                 /\ Len(tags) = 6
                 /\ \A i \in 1..Len(tags) :
                        /\ tags[i].href = "?room=" \o quote(tags[i].room)
                        /\ unquote(quote(tags[i].room)) = tags[i].room

\* C12 as claimed: whenever render_room computes for the selected (room,
\* detector) a status that differs from the status last recorded for the
\* pair (nothing recorded included), one entry is appended to the room's AI
\* log in the same script run.
C12_StatusChangeLogged ==
    (run.op = "run" /\ run.status # <<>> /\ run.status[1] # run.status_prev) =>
        /\ run.logged = 1
        /\ Len(ai_log[current_room]) > 0

\* C13 as claimed: whenever an operator button of a room is clicked
\* (Simulate leak, Close shutters, Increase ventilation, Acknowledge alarm,
\* Reset detector), an entry is appended to that room's AI log.
C13_OperatorActionLogged ==
    (run.op = "run" /\ run.event.kind = "op" /\ "console" \in run.reached) =>
        /\ run.logged >= 1
        /\ Len(ai_log[current_room]) > 0

\* C14 as claimed: no script run ends in an uncaught exception; every run
\* completes or ends in an explicit rerun.
C14_NoUncaughtException ==
    run.op = "run" => run.outcome \in {"completed", "rerun"}

\* C15: when no candidate image file exists for the room, render_room shows
\* an error message and returns without changing last_status, ai_log or the
\* stored history, and the rest of the run still executes: the room's
\* one-shot ops are cleared and the other tabs are rendered.
C15_MissingRoomImage ==
    [][(/\ run'.op = "run" /\ "render_room" \in run'.reached
        /\ _find_first(RoomFilesOf(current_room')) = <<>>) =>
          /\ run'.rr = "image"
          /\ "err_room_image" \in run'.messages
          /\ run'.rr_wrote = {}
          /\ last_status' = last_status
          /\ ai_log' = ai_log
          /\ ~run'.generated => hist' = hist
          /\ run'.status = <<>>
          /\ "ops_cleared" \in run'.reached
          /\ room_ops'[current_room'] = {}
          /\ {"tab_ai", "tab_logs", "tab_settings"} \subseteq run'.reached]_vars

C15_Witness ==
    /\ run.op = "run" /\ run.rr = "image"
    /\ current_room = "Room 1" /\ selected_detector = "NH3"
    /\ run.event = [kind |-> "op", arg |-> "ventilate"]
    /\ hist.present
    /\ \E k \in LsKeys : last_status[k] # None
    /\ run.outcome = "completed"

\* a room name that is not "Overview" and has no detector configuration
Unconfigured(room) == room # "Overview" /\ Len(get_detectors_for(room)) = 0

\* C16 as claimed: for an active room that has no detector configuration the
\* run does not crash, the selected detector is set to None, the detector
\* selector shows an informational message, and render_room stops after
\* its informational message without evaluating a status or calling the AI
\* responder.
C16_NoDetectorsClaimed ==
    (run.op = "run" /\ Unconfigured(run.room0)) =>
        /\ run.outcome # "exception"
        /\ run.det0 = None
        /\ "info_no_detectors" \in run.messages
        /\ run.rr = "no_detector"
        /\ run.status = <<>>
        /\ run.ai_calls = 0

\* C16: for an active room that has no detector configuration the run does
\* not crash: the sanitizer sets the selected detector to None, then the
\* room selector replaces the room by the first configured one (with its
\* first detector, written back to the query parameters) and the run ends in
\* st.rerun() before the detector selector and render_room are reached; no
\* informational message is shown, no status evaluated, no AI call made.
C16_NoDetectors ==
    (run.op = "run" /\ Unconfigured(run.room0)) =>
        /\ run.outcome = "rerun" /\ run.at = "app.py:203"
        /\ run.det0 = None
        /\ "info_no_detectors" \notin run.messages
        /\ "det_select" \notin run.reached
        /\ "render_room" \notin run.reached
        /\ run.rr = ""
        /\ run.status = <<>>
        /\ run.ai_calls = 0
        /\ current_room = ROOMS[1]
        /\ selected_detector = get_detectors_for(current_room)[1]
        /\ qp = [room |-> current_room, det |-> selected_detector]

C16_Witness ==
    /\ run.op = "run" /\ run.room0 = "Lab 9"
    /\ run.det0 = None
    /\ run.outcome = "rerun"
    /\ current_room = "Room 1" /\ selected_detector = "NH3"
    /\ qp = [room |-> "Room 1", det |-> "NH3"]

C18_GeneratedBeforeRead ==
    (run.op = "run" /\ ~run.hist_at_start /\ run.reads # {}) => run.generated

\* C19: a fresh session loaded with room=R and det=D, R a configured room
\* and D the label of one of R's detectors, settles in its first script
\* run (no rerun is requested) with current_room = R, selected_detector = D
\* and the query parameters still naming R and D.
C19_DeepLink ==
    [][(/\ run.op = "none" /\ run'.op = "run"
        /\ qp.room \in RoomSet
        /\ SeqHas(get_detectors_for(qp.room), qp.det)) =>
          /\ run'.outcome # "rerun"
          /\ current_room' = qp.room
          /\ selected_detector' = qp.det
          /\ qp' = qp]_vars

C19_Witness ==
    /\ run.op = "run" /\ run.first
    /\ run.outcome = "completed"
    /\ run.rr = "end"
    /\ current_room = "Room Production" /\ selected_detector = "O2"
    /\ qp = [room |-> "Room Production", det |-> "O2"]

\* C21: apply_runtime_ops only touches the tail: the returned series has
\* the length and the timestamps of the input, every sample before the
\* last TailLen equals the input sample, the input series and the stored
\* history are not modified, and with simulate false and none of the
\* flags it reads set the returned series equals the input.
C21_OpsFrame ==
    [][(ops_ret' # ops_ret) =>
          LET r == ops_ret'
              n == Len(r.df)
          IN /\ Len(r.out) = n
             /\ \A i \in 1..n : r.out[i].t = r.df[i].t
             /\ \A i \in 1..(n - TailLen) : r.out[i] = r.df[i]
             /\ hist' = hist
             /\ r.df = hist'.frames[_key(r.room, r.label)]
             /\ (~r.simulate /\ r.ops \cap {"close_shutter", "ventilate", "reset"} = {})
                   => r.out = r.df]_vars

C21_Witness ==
    /\ ops_ret.op = "ops" /\ ops_ret.ops = {"reset"} /\ ops_ret.simulate
    /\ Len(ops_ret.df) > TailLen
    /\ LET n == Len(ops_ret.df) IN
          /\ ops_ret.out[n] # ops_ret.df[n]
          /\ ops_ret.out[n - TailLen + 1] # ops_ret.df[n - TailLen + 1]
          /\ ops_ret.out[n - TailLen] = ops_ret.df[n - TailLen]

\* C22: every value _next_value produces is at least 0, and so is every
\* value stored in det_sim, after any sequence of _next_value and _series
\* calls.
C22_LiveNonNegative ==
    /\ \A k \in SimKeys : det_sim[k] # <<>> => det_sim[k][1] >= 0
    /\ sim_ret.op \in {"next_value", "series"} => sim_ret.value >= 0

\* a negative step from a stored value below its size was clamped to 0
C22_Witness ==
    /\ sim_ret.op = "next_value"
    /\ sim_ret.before # <<>>
    /\ sim_ret.before[1] + sim_ret.step < 0
    /\ sim_ret.value = 0
    /\ det_sim[sim_ret.key] = <<0>>

\* C30: a _series call with limit n leaves at most n values in the buffer of
\* its key, the last of them the value just generated, the others the most
\* recent earlier values in their order (only the oldest are dropped); it
\* returns that buffer and leaves the other buffers alone.
C30_SeriesBounded ==
    [][(sim_ret' # sim_ret /\ sim_ret'.op = "series") =>
          LET r == sim_ret'
              old == det_buf[r.key]
              new == det_buf'[r.key]
              all == Append(old, r.value)
          IN /\ Len(new) <= r.n
             /\ Len(new) = Min(r.n, Len(all))
             /\ new[Len(new)] = r.value
             /\ new = SubSeq(all, Len(all) - Len(new) + 1, Len(all))
             /\ r.series = new
             /\ det_sim'[r.key] = <<r.value>>
             /\ \A k \in SimKeys \ {r.key} : det_buf'[k] = det_buf[k]]_vars

\* a call on a full buffer dropped the oldest value, which differed from
\* the one kept after it
C30_Witness ==
    /\ sim_ret.op = "series"
    /\ Len(sim_ret.held) = sim_ret.n
    /\ Len(det_buf[sim_ret.key]) = sim_ret.n
    /\ sim_ret.held[1] # sim_ret.held[2]
    /\ det_buf[sim_ret.key][1] = sim_ret.held[2]
    /\ det_buf[sim_ret.key][sim_ret.n] = sim_ret.value

\* C29: for every gas of THRESHOLDS the severity _status_for returns is
\* monotone in the reading: for a high-mode gas a higher reading never has a
\* lower severity, for a low-mode gas a higher reading never has a higher
\* severity; and every gas has a reading that is WARN (its WARN band is not
\* empty: warn < alarm in high mode, alarm < warn in low mode).
C29_SeverityMonotone ==
    /\ (status_ret.op = "status_for" /\ status_ret.label \in DOMAIN THRESHOLDS) =>
          LET l == status_ret.label
              thr == THRESHOLDS[l]
              v == status_ret.value
              sev == order(status_ret.status)
          IN \A w \in StatusValues :
                w >= v => IF thr.mode = "high"
                          THEN order(_status_for(l, w).status) >= sev
                          ELSE order(_status_for(l, w).status) <= sev
    /\ \A l \in DOMAIN THRESHOLDS :
          /\ \E w \in StatusValues : _status_for(l, w).status = "WARN"
          /\ IF THRESHOLDS[l].mode = "high"
             THEN THRESHOLDS[l].warn < THRESHOLDS[l].alarm
             ELSE THRESHOLDS[l].alarm < THRESHOLDS[l].warn

\* the low-mode gas evaluated just above its alarm cutoff is WARN, with
\* ALARM below it and OK above its warn cutoff
C29_Witness ==
    /\ status_ret.op = "status_for"
    /\ status_ret.label = "O2"
    /\ status_ret.value = THRESHOLDS["O2"].alarm + 1
    /\ status_ret.status = "WARN"
    /\ _status_for("O2", THRESHOLDS["O2"].alarm).status = "ALARM"
    /\ _status_for("O2", THRESHOLDS["O2"].warn + 1).status = "OK"

\* the statuses of the detectors of a room that have a latest value
LatestStatuses(room) ==
    LET dets == get_detectors_for(room)
    IN {_status_for(dets[i], latest_value(room, dets[i])[1]).status :
           i \in {j \in 1..Len(dets) : latest_value(room, dets[j]) # <<>>}}

\* C28: _room_worst_status(room) returns the most severe status among the
\* room's detectors that have a latest value, OK when none has one (or the
\* room has no detectors); it equals the maximum severity in the node
\* build_facility_snapshot builds for that room.
C28_RoomWorst ==
    [][(worst_ret' # worst_ret) =>
          LET r == worst_ret'
              sts == LatestStatuses(r.room)
              node == IF r.room \in DOMAIN r.snapshot THEN r.snapshot[r.room] ELSE <<>>
              nsts == {node[l].status : l \in DOMAIN node}
          IN /\ r.worst \in Statuses
             /\ sts = {} => r.worst = "OK"
             /\ sts # {} => /\ r.worst \in sts
                            /\ \A st \in sts : order(st) <= order(r.worst)
             /\ nsts = sts
             /\ \A st \in nsts : order(st) <= order(r.worst)
             /\ nsts # {} => r.worst \in nsts]_vars

\* a room whose first detector is WARN and whose second is OK has WARN
C28_Witness ==
    /\ worst_ret.op = "worst"
    /\ worst_ret.room = "Room Production 2"
    /\ worst_ret.gen = hist_gen
    /\ worst_ret.worst = "WARN"
    /\ worst_ret.snapshot["Room Production 2"]["O2"].status = "WARN"
    /\ worst_ret.snapshot["Room Production 2"]["H2S"].status = "OK"
    /\ worst_ret.snapshot["Room Production"]["NH3"].status = "OK"
    /\ worst_ret.snapshot["Room Production"]["O2"].status = "ALARM"

\* C23: after the _sanitize_selected_detector call at the top of a run the
\* selected detector is None when the active room is "Overview" or a room
\* with no detectors, and otherwise a label of the active room's detectors:
\* the selection the call found when that was one of them, the room's first
\* detector when it was not.
C23_SanitizedSelection ==
    run.op = "run" =>
        LET labels == get_detectors_for(run.room0)
        IN IF run.room0 = "Overview" \/ Len(labels) = 0
           THEN run.det0 = None
           ELSE /\ SeqHas(labels, run.det0)
                /\ SeqHas(labels, run.det_in) => run.det0 = run.det_in
                /\ ~SeqHas(labels, run.det_in) => run.det0 = labels[1]

\* a run found a detector of another room selected and replaced it by the
\* first detector of a room that has two
C23_Witness ==
    /\ run.op = "run"
    /\ run.room0 = "Room Production"
    /\ run.det_in = "CO"
    /\ run.det0 = "NH3"
    /\ Len(get_detectors_for(run.room0)) = 2

\* C24: the operator flags are one-shot. A run in which an operator button
\* is clicked passes exactly that flag to its render_room call, every other
\* run passes none, and between two runs room_ops holds no flag for any
\* room, so a flag reaches a later render_room call only by a new click.
C24_OneShotOps ==
    /\ \A r \in RoomSet : room_ops[r] = {}
    /\ run.op = "run" =>
          IF run.event.kind = "op" /\ run.event.arg \in Flags
             /\ "console" \in run.reached
          THEN "render_room" \in run.reached /\ run.rr_ops = {run.event.arg}
          ELSE run.rr_ops = {}

\* a run in which "Close shutters" was clicked handed the flag to
\* render_room, drew the chart and completed with the flag cleared
C24_Witness ==
    /\ run.op = "run"
    /\ run.event = [kind |-> "op", arg |-> "close_shutter"]
    /\ run.rr_ops = {"close_shutter"}
    /\ run.status # <<>>
    /\ run.outcome = "completed"
    /\ room_ops[current_room] = {}

\* C25: within a session the simulate flag of a room, once set by the
\* "Simulate leak" button, is never cleared: a script run keeps every room
\* that had it, and a run that calls render_room for a room calls it with
\* simulate = true exactly when the room has the flag, so every later call
\* for a room that had it passes true (the reset button included).
C25_SimulateMonotonic ==
    [][(run'.op = "run") =>
          /\ simulate_by_room \subseteq simulate_by_room'
          /\ "render_room" \in run'.reached =>
                run'.rr_simulate = (current_room' \in simulate_by_room')
          /\ (run' # run /\ "render_room" \in run'.reached
              /\ current_room' \in simulate_by_room) => run'.rr_simulate]_vars

\* a run in which "Reset detector" was clicked in a room whose leak was
\* simulated before: render_room is still called with simulate = true
C25_Witness ==
    /\ run.op = "run"
    /\ run.event = [kind |-> "op", arg |-> "reset"]
    /\ "render_room" \in run.reached
    /\ run.rr_ops = {"reset"}
    /\ run.rr_simulate
    /\ current_room \in simulate_by_room

\* C26: a chain of automatic reruns is finite: the run that st.rerun()
\* starts does not call st.rerun() again and completes.
C26_RerunChainEnds ==
    (run.op = "run" /\ run.chain > 0) =>
        /\ run.chain = 1
        /\ run.outcome = "completed"

IsPrefix(a, b) == Len(a) <= Len(b) /\ SubSeq(b, 1, Len(a)) = a

\* C27 as stated: a render_room call whose computed status equals the
\* recorded one appends no entry and makes no AI call.
C27_QuietWhenUnchangedClaimed ==
    (run.op = "run" /\ "render_room" \in run.reached /\ run.status # <<>>
     /\ run.status[1] = run.status_prev) =>
        /\ run.logged = 0
        /\ run.rr_ai = 0

\* C27: a script run leaves every earlier entry of the AI log in place and
\* appends only when it found a status change; a render_room call whose
\* computed status equals the recorded one appends no entry and makes no
\* AI call of its own, the only AI call it can make being the answer to a
\* question typed into the room's chat input in that run.
C27_QuietWhenUnchanged ==
    [][(run'.op = "run") =>
          /\ \A r \in RoomSet : IsPrefix(ai_log[r], ai_log'[r])
          /\ ai_log' # ai_log =>
                (run'.status # <<>> /\ run'.status[1] # run'.status_prev)
          /\ ("render_room" \in run'.reached /\ run'.status # <<>>
              /\ run'.status[1] = run'.status_prev) =>
                /\ run'.logged = 0
                /\ run'.rr_ai = IF run'.event.kind = "chat" THEN 1 ELSE 0]_vars

\* a chat question was typed in a run whose status equals the recorded
\* one: one AI call, no entry
C27_Witness ==
    /\ run.op = "run"
    /\ run.event.kind = "chat"
    /\ "render_room" \in run.reached
    /\ run.status = <<"OK">>
    /\ run.status_prev = "OK"
    /\ run.rr_ai = 1
    /\ run.logged = 0
    /\ ai_log[current_room] = <<>>

=============================================================================
